---- MODULE Spec2Model ----
(***************************************************************************)
(* A model of the translation service: the translation engines             *)
(* (main.py, codespace_app.py, codespaces_app.py, translation_engine.py),  *)
(* the rate limiters (utils/rate_limiter.py, SimpleRateLimiter) and the    *)
(* /translate request handler with its response cache.                     *)
(*                                                                         *)
(* Python strings are sequences of one-character strings, so that lower(), *)
(* upper(), strip() and f-string concatenation are computed, not assumed.  *)
(* Confidences are in thousandths (1.0 = 1000, 0.95 = 950).                *)
(***************************************************************************)
EXTENDS Integers, Sequences, FiniteSets, TLC

VARIABLES
    engine,        \* which engine class self.translator is
    ai_models,     \* self.ai_models: the target languages with a loaded model
    call,          \* the arguments of the last translate() call
    result,        \* the dict the last translate() call returned
    backend_log,   \* the backend invocations made by the last translate() call
    limiter,       \* which rate limiter / backing store is in use
    now,           \* int(time.time())
    memory_store,  \* RateLimiter.memory_store: client -> list of timestamps
    zset,          \* redis sorted set rate_limit:<client>: set of members
    requests,      \* SimpleRateLimiter.requests: client -> minute_key -> count
    log,           \* history: client -> its is_allowed calls, in order
    app,           \* which application (TranslationAPI) is running
    redis_up,      \* app.py: self.redis_client is set
    hash_seed,     \* the process's string-hash seed
    cache,         \* self.cache, or the translate:* keys of redis
    conversations, \* ConversationManager's store: session -> history
    req,           \* the last /translate request
    resp,          \* the response to it
    handled,       \* history: the number of requests handled
    trace,         \* history: what the handler did for the last request
    shadow,        \* the same requests handled with the response cache disabled
    added          \* history: session -> the exchanges add_exchange stored for it

vars == <<engine, ai_models, call, result, backend_log,
          limiter, now, memory_store, zset, requests, log,
          app, redis_up, hash_seed, cache, conversations, req, resp, handled,
          trace, shadow, added>>

engineVars == <<engine, ai_models, call, result, backend_log>>
limiterVars == <<limiter, now, memory_store, zset, requests, log>>
apiVars == <<app, redis_up, hash_seed, cache, conversations, req, resp, handled,
            trace, shadow, added>>

(***************************************************************************)
(* Bounds                                                                  *)
(***************************************************************************)
MaxLen == 3        \* longest input text
MaxTime == 6       \* the clock stops here
MaxCalls == 7      \* is_allowed calls in one run
MaxStoreCalls == 4 \* is_allowed calls in one run with a store that may raise
MaxFailures == 1   \* is_allowed calls in one run during which the store raises
Limit == 2         \* RateLimiter(limit=...), scaled down from the default 100
Window == 3        \* RateLimiter(window=...), scaled down from the default 60
MaxRequests == 3   \* /translate requests in one run
MaxOps == 4        \* ConversationManager calls in one run
MaxDegraded == 2   \* /translate requests in one run with a failing store
MaxBatch == 3      \* texts in one batch, scaled down from 100
SmallBatch == 2    \* codespace_app.py's batch limit, scaled down from 20
MaxThreadCalls == 4 \* is_allowed calls of the request threads in one run
MaxAdds == 4       \* add_exchange calls of the request threads in one run
TextLimit == 2     \* longest accepted text, scaled down from 5000
SmallTextLimit == 1 \* the same in codespace_app.py, scaled down from 1000
TTL == 4           \* expiry of redis entries, scaled down from 3600
CacheMax == 2      \* codespace_app.py's cache size limit, scaled down from 100
MaxHistory == 3    \* ConversationManager(max_history=...), scaled down from 10
ContextLast == 2   \* exchanges in a context, scaled down from 3

(***************************************************************************)
(* Strings                                                                 *)
(***************************************************************************)
Alphabet == {"a", "A", " "}

Texts == UNION {[1..n -> Alphabet] : n \in 0..MaxLen}

LowerChar(c) ==
    CASE c = "A" -> "a"
      [] c = "E" -> "e"
      [] c = "S" -> "s"
      [] c = "F" -> "f"
      [] c = "R" -> "r"
      [] c = "X" -> "x"
      [] c = "N" -> "n"
      [] OTHER -> c

UpperChar(c) ==
    CASE c = "a" -> "A"
      [] c = "e" -> "E"
      [] c = "s" -> "S"
      [] c = "f" -> "F"
      [] c = "r" -> "R"
      [] c = "x" -> "X"
      [] c = "n" -> "N"
      [] OTHER -> c

Lower(s) == [i \in 1..Len(s) |-> LowerChar(s[i])]

Upper(s) == [i \in 1..Len(s) |-> UpperChar(s[i])]

IsSpace(c) == c = " "

RECURSIVE LStrip(_)
LStrip(s) == IF Len(s) > 0 /\ IsSpace(s[1]) THEN LStrip(Tail(s)) ELSE s

RECURSIVE RStrip(_)
RStrip(s) ==
    IF Len(s) > 0 /\ IsSpace(s[Len(s)]) THEN RStrip(SubSeq(s, 1, Len(s) - 1)) ELSE s

Strip(s) == RStrip(LStrip(s))

(***************************************************************************)
(* Language codes                                                          *)
(***************************************************************************)
AUTO == <<"a", "u", "t", "o">>
EN == <<"e", "n">>
ES == <<"e", "s">>
FR == <<"f", "r">>
XX == <<"x", "x">>

AR == <<"a", "r">>

SourceLangs == {AUTO, EN, FR}
TargetLangs == {EN, ES, FR, AR, XX}

GENERAL == <<"g", "e", "n", "e", "r", "a", "l">>
FORMAL == <<"f", "o", "r", "m", "a", "l">>
Styles == {GENERAL, FORMAL}

(***************************************************************************)
(* Phrase tables.  One all-lower-case key stands for the tables' ordinary  *)
(* entries ("hello"); main.py's fr table also has keys written with a      *)
(* capital letter ("Hello, how are you?"), here "Aa".                      *)
(***************************************************************************)
HOLA == <<"h", "o", "l", "a">>
SALUT == <<"s", "a", "l", "u", "t">>
HELLO == <<"h", "e", "l", "l", "o">>
COMMENT == <<"c", "o", "m", "m", "e", "n", "t">>
MARHABA == <<"m", "a", "r", "h", "a", "b", "a">>

MainTranslations ==
    (ES :> (<<"a">> :> HOLA)) @@
    (FR :> ((<<"a">> :> SALUT) @@ (<<"A", "a">> :> COMMENT)))

LightweightTranslations ==
    (EN :> (<<"a">> :> HELLO)) @@
    (ES :> (<<"a">> :> HOLA)) @@
    (AR :> (<<"a">> :> MARHABA))

ReducedTranslations ==
    (ES :> (<<"a">> :> HOLA)) @@
    (AR :> (<<"a">> :> MARHABA))

MainModelLangs == {ES, FR}
LightweightModelLangs == {ES, AR}
ReducedModelLangs == {ES, AR}

AdvancedSupported == {EN, ES, FR, AR}

Engines == {"main", "codespace", "codespaces", "advanced"}

Translations(eng) ==
    CASE eng = "main" -> MainTranslations
      [] eng = "codespace" -> LightweightTranslations
      [] eng = "codespaces" -> ReducedTranslations
      [] OTHER -> <<>>

ModelLangs(eng) ==
    CASE eng = "main" -> MainModelLangs
      [] eng = "codespace" -> LightweightModelLangs
      [] eng = "codespaces" -> ReducedModelLangs
      [] OTHER -> {}

\* _enhanced_translate / _dictionary_translate: a hit, and the value of a hit
DictKey(text) == Strip(Lower(text))

DictHit(table, text, target_lang) ==
    /\ target_lang \in DOMAIN table
    /\ DictKey(text) \in DOMAIN table[target_lang]

DictValue(table, text, target_lang) == table[target_lang][DictKey(text)]

(***************************************************************************)
(* The translation engines.  A backend call either returns a text or       *)
(* raises; outs is what the successive backend calls of one translate()    *)
(* would do, and a result's calls counts the backend calls actually made.  *)
(***************************************************************************)
BackendOutputs == {<<"m", "1">>, <<"m", "2">>}

BackendOutcomes ==
    [ok : {TRUE}, text : BackendOutputs] \cup [ok : {FALSE}, text : {<<>>}]

TRANSLATION_ERROR ==
    <<"T", "r", "a", "n", "s", "l", "a", "t", "i", "o", "n", " ",
      "E", "r", "r", "o", "r", ":", " ">>

\* the marker without target_lang.upper()
PlaceholderNoUpper(target_lang, text) ==
    <<"[">> \o target_lang \o <<"]", " ">> \o text

\* f"[{target_lang.upper()}] {text}"
Placeholder(target_lang, text) ==
    <<"[">> \o Upper(target_lang) \o <<"]", " ">> \o text

\* f"Translation Error: {text}"
ErrorText(text) == TRANSLATION_ERROR \o text

\* target_lang in self.ai_models and source_lang in ["auto", "en"]
BackendApplicable(models, source_lang, target_lang) ==
    target_lang \in models /\ source_lang \in {AUTO, EN}

Res(text, confidence, method, error, exception, calls) ==
    [translated_text |-> text, confidence |-> confidence, method |-> method,
     error |-> error, exception |-> exception, calls |-> calls]

\* translate with the model tried before the dictionary
EnhancedTranslateModelFirst(models, text, source_lang, target_lang, outs) ==
    IF BackendApplicable(models, source_lang, target_lang) /\ outs[1].ok
    THEN Res(outs[1].text, 950, "ai_model", FALSE, FALSE, 1)
    ELSE IF DictHit(MainTranslations, text, target_lang)
    THEN Res(DictValue(MainTranslations, text, target_lang), 1000, "dictionary",
             FALSE, FALSE, 0)
    ELSE Res(Placeholder(target_lang, text), 0, "fallback_placeholder",
             FALSE, FALSE, 0)

\* main.py EnhancedTranslationEngine.translate; style and context are
\* parameters the body never reads
EnhancedTranslate(models, text, source_lang, target_lang, outs) ==
    IF DictHit(MainTranslations, text, target_lang)
    THEN Res(DictValue(MainTranslations, text, target_lang), 1000, "dictionary",
             FALSE, FALSE, 0)
    ELSE IF BackendApplicable(models, source_lang, target_lang)
    THEN IF outs[1].ok
         THEN Res(outs[1].text, 950, "ai_model", FALSE, FALSE, 1)
         ELSE Res(ErrorText(text), 0, "error", FALSE, TRUE, 1)
    ELSE Res(Placeholder(target_lang, text), 0, "fallback_placeholder",
             FALSE, FALSE, 0)

\* codespaces_app.py EnhancedTranslationEngine.translate: no 'method' key
ReducedTranslate(models, text, source_lang, target_lang, outs) ==
    IF DictHit(ReducedTranslations, text, target_lang)
    THEN Res(DictValue(ReducedTranslations, text, target_lang), 1000, "absent",
             FALSE, FALSE, 0)
    ELSE IF BackendApplicable(models, source_lang, target_lang)
    THEN IF outs[1].ok
         THEN Res(outs[1].text, 950, "absent", FALSE, FALSE, 1)
         ELSE Res(ErrorText(text), 0, "absent", FALSE, TRUE, 1)
    ELSE Res(Placeholder(target_lang, text), 0, "absent", FALSE, FALSE, 0)

\* codespace_app.py LightweightTranslationEngine.translate
LightweightTranslate(models, text, source_lang, target_lang, outs) ==
    LET first == BackendApplicable(models, source_lang, target_lang)
        n1 == IF first THEN 1 ELSE 0
    IN  IF first /\ outs[1].ok
        THEN Res(outs[1].text, 950, "ai_model_faang", FALSE, FALSE, 1)
        ELSE IF DictHit(LightweightTranslations, text, target_lang)
        THEN Res(DictValue(LightweightTranslations, text, target_lang), 800,
                 "dictionary_fallback", FALSE, FALSE, n1)
        ELSE IF target_lang = ES /\ BackendApplicable(models, source_lang, target_lang)
        THEN IF outs[n1 + 1].ok
             THEN Res(outs[n1 + 1].text, 950, "ai_model", FALSE, FALSE, n1 + 1)
             ELSE Res(Placeholder(target_lang, text), 100, "fallback",
                      FALSE, FALSE, n1 + 1)
        ELSE Res(Placeholder(target_lang, text), 100, "fallback", FALSE, FALSE, n1)

\* translation_engine.py _calculate_confidence: min(0.95, max(0.7, 0.9 - n/1000)),
\* 0.8 when it fails
AdvancedConfidences == {700, 800, 899}

\* translation_engine.py AdvancedTranslationEngine.translate
AdvancedTranslate(text, source_lang, target_lang, outs, conf) ==
    IF target_lang \notin AdvancedSupported
    THEN Res(text, 0, "absent", TRUE, TRUE, 0)
    ELSE IF outs[1].ok
    THEN Res(outs[1].text, conf, "absent", FALSE, FALSE, 1)
    ELSE Res(text, 0, "absent", TRUE, TRUE, 1)

\* self.translator.translate(...)
TranslatorTranslate(eng, models, text, source_lang, target_lang, outs, conf) ==
    CASE eng = "main" -> EnhancedTranslate(models, text, source_lang, target_lang, outs)
      [] eng = "codespace" ->
            LightweightTranslate(models, text, source_lang, target_lang, outs)
      [] eng = "codespaces" ->
            ReducedTranslate(models, text, source_lang, target_lang, outs)
      [] OTHER -> AdvancedTranslate(text, source_lang, target_lang, outs, conf)

\* the spec's method enum for the engines' method strings
MethodKind(method) ==
    CASE method \in {"dictionary", "dictionary_fallback"} -> "dictionary"
      [] method \in {"ai_model", "ai_model_faang"} -> "backend_model"
      [] method \in {"fallback_placeholder", "fallback"} -> "placeholder"
      [] method = "error" -> "error"
      [] OTHER -> "unknown"

NoCall == [text |-> <<>>, source_lang |-> AUTO, target_lang |-> EN,
           style |-> GENERAL, context |-> <<>>]

NoResult == Res(<<>>, 0, "none", FALSE, FALSE, 0)

\* one call of translate() on the engine, with the arguments drawn in Init
Translate ==
    /\ result.method = "none"
    /\ \E outs \in [1..2 -> BackendOutcomes], conf \in AdvancedConfidences :
        LET r == TranslatorTranslate(engine, ai_models, call.text, call.source_lang,
                                     call.target_lang, outs, conf)
        IN  /\ result' = r
            /\ backend_log' = SubSeq(outs, 1, r.calls)
    /\ UNCHANGED <<engine, ai_models, call>>
    /\ UNCHANGED limiterVars
    /\ UNCHANGED apiVars

ApiIdle ==
    /\ app = "main"
    /\ redis_up = FALSE
    /\ hash_seed = 0
    /\ cache = <<>>
    /\ conversations = <<>>
    /\ req = <<>>
    /\ resp = <<>>
    /\ handled = 0
    /\ trace = <<>>
    /\ shadow = <<>>
    /\ added = <<>>

LimiterIdle ==
    /\ limiter = "memory"
    /\ now = 0
    /\ memory_store = <<>>
    /\ zset = <<>>
    /\ requests = <<>>
    /\ log = <<>>

InitEngine ==
    /\ engine \in Engines
    /\ ai_models \in SUBSET ModelLangs(engine)
    /\ call \in [text : Texts, source_lang : SourceLangs,
                 target_lang : TargetLangs, style : Styles, context : {<<>>}]
    /\ result = NoResult
    /\ backend_log = <<>>
    /\ LimiterIdle
    /\ ApiIdle

NextEngine == Translate

SpecEngine == InitEngine /\ [][NextEngine]_vars

(***************************************************************************)
(* The rate limiters.  Each is_allowed is a function of the store, the     *)
(* client and the time, giving the answer and the store afterwards.        *)
(***************************************************************************)
Clients == {"c1", "c2"}

Limiters == {"memory", "redis", "simple"}

\* a store's value for a key, or a default when the key is absent
Get(store, key, default) == IF key \in DOMAIN store THEN store[key] ELSE default

Put(store, key, value) == [k \in DOMAIN store \cup {key} |->
                              IF k = key THEN value ELSE store[k]]

\* rate_limiter.py, memory path: [t for t in store[client] if t > cutoff]
CleanOld(times, cutoff) == SelectSeq(times, LAMBDA req_time : req_time > cutoff)

\* rate_limiter.py RateLimiter.is_allowed, memory fallback
MemoryIsAllowed(store, client_ip, current_time) ==
    LET kept == CleanOld(Get(store, client_ip, <<>>), current_time - Window)
    IN  IF Len(kept) >= Limit
        THEN [allowed |-> FALSE, store |-> Put(store, client_ip, kept)]
        ELSE [allowed |-> TRUE,
              store |-> Put(store, client_ip, Append(kept, current_time))]

\* redis: a sorted set is its members; the member str(t) has the score t.
\* A key whose expire time has come is gone.
NoKey == [members |-> {}, expire_at |-> 0]

Live(z, key, t) ==
    LET v == Get(z, key, NoKey) IN IF t < v.expire_at THEN v.members ELSE {}

\* zremrangebyscore(key, lo, hi)
ZRemRangeByScore(members, lo, hi) == {m \in members : ~(lo <= m /\ m <= hi)}

\* zadd(key, {str(t): t})
ZAdd(members, t) == members \cup {t}

\* rate_limiter.py RateLimiter.is_allowed, redis path: the pipeline
\* zremrangebyscore, zcard, zadd, expire, and request_count < limit
RedisIsAllowed(z, client_ip, current_time) ==
    LET purged == ZRemRangeByScore(Live(z, client_ip, current_time), 0,
                                   current_time - Window)
        request_count == Cardinality(purged)
        after == [members |-> ZAdd(purged, current_time),
                  expire_at |-> current_time + Window]
    IN  [allowed |-> request_count < Limit, store |-> Put(z, client_ip, after)]

\* a limiter that fails closed would answer
OnLimiterErrorClosed == FALSE

\* rate_limiter.py: except Exception: return True
OnLimiterError == TRUE

\* main.py SimpleRateLimiter.is_allowed: a counter per minute_key
SimpleIsAllowed(reqs, client_ip, current_time) ==
    LET minute_key == current_time \div Window
        old == Get(reqs, client_ip, <<>>)
        cleaned == [k \in {k \in DOMAIN old : k >= minute_key - 1} |-> old[k]]
        current_count == Get(cleaned, minute_key, 0)
    IN  IF current_count >= Limit
        THEN [allowed |-> FALSE, store |-> Put(reqs, client_ip, cleaned)]
        ELSE [allowed |-> TRUE,
              store |-> Put(reqs, client_ip,
                            Put(cleaned, minute_key, current_count + 1))]

Calls == LET RECURSIVE Sum(_)
             Sum(S) == IF S = {} THEN 0
                       ELSE LET c == CHOOSE c \in S : TRUE
                            IN  Len(log[c]) + Sum(S \ {c})
         IN  Sum(Clients)

Failures ==
    Cardinality({<<c, i>> \in UNION {{c} \X DOMAIN log[c] : c \in Clients} :
                    log[c][i].failed})

Logged(client_ip, allowed, failed) ==
    log' = [log EXCEPT ![client_ip] =
               Append(@, [time |-> now, allowed |-> allowed, failed |-> failed])]

\* time passes
Tick ==
    /\ now < MaxTime
    /\ now' = now + 1
    /\ UNCHANGED <<limiter, memory_store, zset, requests, log>>
    /\ UNCHANGED engineVars
    /\ UNCHANGED apiVars

\* is_allowed(client_ip) with redis_client None
MemoryCall ==
    /\ limiter = "memory"
    /\ Calls < MaxCalls
    /\ \E client_ip \in Clients :
        LET r == MemoryIsAllowed(memory_store, client_ip, now)
        IN  /\ memory_store' = r.store
            /\ Logged(client_ip, r.allowed, FALSE)
    /\ UNCHANGED <<limiter, now, zset, requests>>
    /\ UNCHANGED engineVars
    /\ UNCHANGED apiVars

\* is_allowed(client_ip) with a redis client that answers
RedisCall ==
    /\ limiter = "redis"
    /\ Calls < MaxCalls
    /\ \E client_ip \in Clients :
        LET r == RedisIsAllowed(zset, client_ip, now)
        IN  /\ zset' = r.store
            /\ Logged(client_ip, r.allowed, FALSE)
    /\ UNCHANGED <<limiter, now, memory_store, requests>>
    /\ UNCHANGED engineVars
    /\ UNCHANGED apiVars

\* the same, in a run where the store may raise
RedisStoreCall == Calls < MaxStoreCalls /\ RedisCall

\* is_allowed(client_ip) with a redis client that raises: at pipeline(), or at
\* execute() before or after the server ran the transaction
RedisFailingCall ==
    /\ limiter = "redis"
    /\ Calls < MaxStoreCalls
    /\ Failures < MaxFailures
    /\ \E client_ip \in Clients, applied \in BOOLEAN :
        /\ zset' = IF applied THEN RedisIsAllowed(zset, client_ip, now).store
                   ELSE zset
        /\ Logged(client_ip, OnLimiterError, TRUE)
    /\ UNCHANGED <<limiter, now, memory_store, requests>>
    /\ UNCHANGED engineVars
    /\ UNCHANGED apiVars

\* SimpleRateLimiter.is_allowed(client_ip)
SimpleCall ==
    /\ limiter = "simple"
    /\ Calls < MaxCalls
    /\ \E client_ip \in Clients :
        LET r == SimpleIsAllowed(requests, client_ip, now)
        IN  /\ requests' = r.store
            /\ Logged(client_ip, r.allowed, FALSE)
    /\ UNCHANGED <<limiter, now, memory_store, zset>>
    /\ UNCHANGED engineVars
    /\ UNCHANGED apiVars

EngineIdle ==
    /\ engine = "main"
    /\ ai_models = {}
    /\ call = NoCall
    /\ result = NoResult
    /\ backend_log = <<>>

InitLimiter ==
    /\ limiter \in Limiters
    /\ now = 0
    /\ memory_store = <<>>
    /\ zset = <<>>
    /\ requests = <<>>
    /\ log = [c \in Clients |-> <<>>]
    /\ EngineIdle
    /\ ApiIdle

NextLimiter ==
    \/ Tick
    \/ MemoryCall
    \/ RedisCall
    \/ SimpleCall

SpecLimiter == InitLimiter /\ [][NextLimiter]_vars

InitStore == InitLimiter /\ limiter = "redis"

NextStore ==
    \/ Tick
    \/ RedisStoreCall
    \/ RedisFailingCall

SpecStore == InitStore /\ [][NextStore]_vars

(***************************************************************************)
(* The /translate handler (TranslationAPI._handle_translate_request) of    *)
(* the four applications.  A JSON object is a record whose absent keys     *)
(* hold ABSENT; NUMBER is a JSON number where a string is expected.        *)
(***************************************************************************)
Apps == {"main", "app", "codespace", "codespaces"}

\* self.translator
EngineOf(a) ==
    CASE a = "main" -> "main"
      [] a = "app" -> "advanced"
      [] a = "codespace" -> "codespace"
      [] OTHER -> "codespaces"

\* self.rate_limiter
LimiterOf(a, up) ==
    IF a = "app" THEN (IF up THEN "redis" ELSE "memory") ELSE "simple"

\* self.translator.get_supported_languages()
MainSupported == {EN, ES, FR, AR}
LightweightSupported == {EN, ES, AR}
ReducedSupported == {ES, AR}

SupportedLanguages(a) ==
    CASE a = "main" -> MainSupported
      [] a = "app" -> AdvancedSupported
      [] a = "codespace" -> LightweightSupported
      [] OTHER -> ReducedSupported

\* data.get('target_lang', ...)
DefaultTarget(a) == IF a = "codespace" THEN ES ELSE EN

\* the length limit of _validate_translate_request
MaxText(a) == IF a = "codespace" THEN SmallTextLimit ELSE TextLimit

ABSENT == <<"<absent>">>
NUMBER == <<"<number>">>
JTRUE == <<"true">>
JFALSE == <<"false">>

Rep(n) == [i \in 1..n |-> "a"]

\* the texts of the requests: with a phrase-table entry, without one, and
\* longer than the limit
ValidTexts == {<<"a">>, <<" ">>}
InvalidTexts == {ABSENT, NUMBER, Rep(TextLimit + 1)}

NoObject == [text |-> ABSENT, source_lang |-> ABSENT, target_lang |-> ABSENT,
             style |-> ABSENT, use_context |-> ABSENT, session_id |-> ABSENT]

\* the optional keys of the requests' JSON objects: none, a target language,
\* and with it a source language or a style; app.py also reads use_context
\* and session_id
Options(a) ==
    {NoObject,
     [NoObject EXCEPT !.target_lang = ES],
     [NoObject EXCEPT !.target_lang = XX],
     [NoObject EXCEPT !.target_lang = ES, !.source_lang = FR],
     [NoObject EXCEPT !.target_lang = ES, !.style = FORMAL]}
    \cup (IF a = "app"
          THEN {[NoObject EXCEPT !.target_lang = ES, !.use_context = JFALSE],
                [NoObject EXCEPT !.target_lang = ES, !.session_id = <<"s1">>]}
          ELSE {})

\* the JSON objects of the requests
Objects(a) ==
    {[o EXCEPT !.text = t] : o \in Options(a), t \in ValidTexts}
    \cup {[NoObject EXCEPT !.text = t] : t \in InvalidTexts}

\* the clients of the requests
Callers == {"c1"}

\* a request: its client, request.is_json, and the body: a JSON object or a
\* non-empty JSON array
Requests(a) ==
    [client_ip : Callers, is_json : {TRUE}, kind : {"object"}, data : Objects(a)]
    \cup [client_ip : Callers, is_json : BOOLEAN, kind : {"array"},
          data : {NoObject}]

\* data.get(field, default)
DataGet(data, field, default) ==
    IF data[field] = ABSENT THEN default ELSE data[field]

\* bool(value) of a JSON value
Truthy(value) == value # ABSENT /\ value # <<>> /\ value # JFALSE

NONE == "None"
RAISED == "raised"

\* _validate_translate_request with len(data['text']) >= limit for the length
\* test
ValidateCheckedStrict(a, kind, data) ==
    IF kind # "object" THEN "Invalid JSON data"
    ELSE IF ~Truthy(data.text) THEN "Missing required field: text"
    ELSE IF data.text = NUMBER THEN "Text must be a string"
    ELSE IF Len(data.text) >= MaxText(a) THEN "Text too long"
    ELSE IF Truthy(data.target_lang)
            /\ data.target_lang \notin SupportedLanguages(a)
    THEN "Unsupported target language"
    ELSE NONE

\* main.py, codespace_app.py, codespaces_app.py: _validate_translate_request
ValidateChecked(a, kind, data) ==
    IF kind # "object" THEN "Invalid JSON data"
    ELSE IF ~Truthy(data.text) THEN "Missing required field: text"
    ELSE IF data.text = NUMBER THEN "Text must be a string"
    ELSE IF Len(data.text) > MaxText(a) THEN "Text too long"
    ELSE IF Truthy(data.target_lang)
            /\ data.target_lang \notin SupportedLanguages(a)
    THEN "Unsupported target language"
    ELSE NONE

\* app.py: _validate_translate_request; data.get on a list and len() of a
\* number raise
ValidateUnchecked(a, kind, data) ==
    IF kind # "object" THEN RAISED
    ELSE IF ~Truthy(data.text) THEN "Missing required field: text"
    ELSE IF data.text = NUMBER THEN RAISED
    ELSE IF Len(data.text) > MaxText(a) THEN "Text too long"
    ELSE IF Truthy(data.target_lang)
            /\ data.target_lang \notin SupportedLanguages(a)
    THEN "Unsupported target language"
    ELSE NONE

Validate(a, kind, data) ==
    IF a = "app" THEN ValidateUnchecked(a, kind, data)
    ELSE ValidateChecked(a, kind, data)

\* hash(text): a function of the text and the process's seed; under seed 0
\* the request texts have different values, under seed 1 some coincide
CharCode(c) == CASE c = "a" -> 1 [] c = "A" -> 2 [] OTHER -> 3

RECURSIVE Code(_)
Code(s) == IF s = <<>> THEN 0 ELSE CharCode(Head(s)) + 4 * Code(Tail(s))

HashSeeds == {0, 1}

Hash(seed, text) == IF seed = 0 THEN Code(text) ELSE Code(text) % 2

Digit(d) == SubSeq(<<"0", "1", "2", "3", "4", "5", "6", "7", "8", "9">>,
                   d + 1, d + 1)

\* str(n) of a natural number
RECURSIVE IntStr(_)
IntStr(n) == IF n < 10 THEN Digit(n) ELSE IntStr(n \div 10) \o Digit(n % 10)

TRANSLATE == <<"t", "r", "a", "n", "s", "l", "a", "t", "e">>

\* f"translate:{source_lang}:{target_lang}:{style}:{hash(text)}"
CacheKey(source_lang, target_lang, style, h) ==
    TRANSLATE \o <<":">> \o source_lang \o <<":">> \o target_lang
        \o <<":">> \o style \o <<":">> \o IntStr(h)

\* str(response_data) and eval(cached_result): the dict written out as its
\* items, in the order of the keys, and read back
Fields(a) ==
    <<"original_text", "translated_text", "source_language", "target_language",
      "style", "confidence_score", "translation_time", "cached">>
    \o (IF a \in {"main", "codespace"} THEN <<"method">> ELSE <<>>)
    \o (IF a = "codespace" THEN <<"optimized_for">> ELSE <<>>)

Str(d, fields) == [i \in DOMAIN fields |-> <<fields[i], d[fields[i]]>>]

Eval(s) == [f \in {s[i][1] : i \in DOMAIN s} |->
               s[CHOOSE i \in DOMAIN s : s[i][1] = f][2]]

\* redis: get(key) is None once the key's time has come; setex(key, ttl, v)
RedisGet(store, key, t) ==
    IF key \in DOMAIN store /\ t < store[key].expire_at
    THEN store[key].value ELSE <<>>

SetEx(store, key, ttl, value, t) ==
    Put(store, key, [value |-> value, expire_at |-> t + ttl])

NotFound == [found |-> FALSE, value |-> <<>>]

\* main.py, codespace_app.py, codespaces_app.py: cache_key in self.cache
DictLookup(c, cache_key) ==
    IF cache_key \in DOMAIN c THEN [found |-> TRUE, value |-> c[cache_key]]
    ELSE NotFound

\* app.py: redis_client.get(cache_key), eval(cached_result)
RedisLookup(c, cache_key, t) ==
    LET cached_result == RedisGet(c, cache_key, t)
    IN  IF cached_result # <<>>
        THEN [found |-> TRUE, value |-> Eval(cached_result)]
        ELSE NotFound

CacheLookup(a, up, c, cache_key, t) ==
    IF a = "app"
    THEN (IF up THEN RedisLookup(c, cache_key, t) ELSE NotFound)
    ELSE DictLookup(c, cache_key)

\* a hit's response, were response_data['cached'] = True left out
AnnotateOmitted(stored) == stored

\* a hit's response: response_data['cached'] = True on the copy
Annotate(stored) == [stored EXCEPT !.cached = TRUE]

\* storing the response of a miss
CacheStore(a, up, c, cache_key, response_data, t) ==
    CASE a = "app" ->
            IF up THEN SetEx(c, cache_key, TTL, Str(response_data, Fields(a)), t)
            ELSE c
      [] a = "codespace" ->
            IF Cardinality(DOMAIN c) < CacheMax
            THEN Put(c, cache_key, response_data) ELSE c
      [] OTHER -> Put(c, cache_key, response_data)

(***************************************************************************)
(* utils/conversation_manager.py.  A history is a list of exchanges; with  *)
(* redis it is kept as json under conversation:<session_id> with an expiry.*)
(***************************************************************************)
ExchangeFields == <<"user_text", "translation", "timestamp">>

JsonDumps(history) == [i \in DOMAIN history |-> Str(history[i], ExchangeFields)]

JsonLoads(data) == [i \in DOMAIN data |-> Eval(data[i])]

\* _get_history
GetHistory(up, conv, session_id, t) ==
    IF up
    THEN LET data == RedisGet(conv, session_id, t)
         IN  IF data # <<>> THEN JsonLoads(data) ELSE <<>>
    ELSE Get(conv, session_id, <<>>)

\* history[-n:]
LastN(s, n) == SubSeq(s, IF Len(s) > n THEN Len(s) - n + 1 ELSE 1, Len(s))

\* " | ".join(context_parts)
RECURSIVE JoinParts(_)
JoinParts(parts) ==
    IF parts = <<>> THEN <<>>
    ELSE IF Len(parts) = 1 THEN parts[1]
    ELSE parts[1] \o <<" | ">> \o JoinParts(Tail(parts))

\* get_context without the [-3:] slice: every stored exchange is rendered
GetContextWhole(up, conv, session_id, t) ==
    LET history == GetHistory(up, conv, session_id, t)
        context_parts ==
            [i \in DOMAIN history |->
                <<"Previous: ">> \o history[i].user_text \o <<" -> ">>
                    \o history[i].translation]
    IN  IF history = <<>> THEN <<>> ELSE JoinParts(context_parts)

\* get_context
GetContext(up, conv, session_id, t) ==
    LET history == GetHistory(up, conv, session_id, t)
        recent == LastN(history, ContextLast)
        context_parts ==
            [i \in DOMAIN recent |->
                <<"Previous: ">> \o recent[i].user_text \o <<" -> ">>
                    \o recent[i].translation]
    IN  IF history = <<>> THEN <<>> ELSE JoinParts(context_parts)

\* add_exchange
AddExchange(up, conv, session_id, user_text, translation, t) ==
    LET exchange == [user_text |-> user_text, translation |-> translation,
                     timestamp |-> t]
        history == Append(GetHistory(up, conv, session_id, t), exchange)
        kept == IF Len(history) > MaxHistory THEN LastN(history, MaxHistory)
                ELSE history
    IN  IF up THEN SetEx(conv, session_id, TTL, JsonDumps(kept), t)
        ELSE Put(conv, session_id, kept)

(***************************************************************************)
(* _handle_translate_request                                               *)
(***************************************************************************)
DetectMin == 3

\* translation_engine.py detect_language: "en" for a very short text, else
\* what the detector says
DetectLanguage(text, guess) == IF Len(Strip(text)) < DetectMin THEN EN ELSE guess

\* translation_result.get('detected_language', source_lang)
SourceLanguage(a, text, source_lang, guess) ==
    IF a = "app" /\ source_lang = AUTO THEN DetectLanguage(text, guess)
    ELSE source_lang

\* round(translation_time, 3)
Latencies == {1}

ResponseData(a, text, res, source_language, target_lang, style, latency) ==
    [original_text |-> text,
     translated_text |-> res.translated_text,
     source_language |-> source_language,
     target_language |-> target_lang,
     style |-> style,
     confidence_score |-> res.confidence,
     translation_time |-> latency,
     cached |-> FALSE]
    @@ (IF a \in {"main", "codespace"} THEN [method |-> res.method] ELSE <<>>)
    @@ (IF a = "codespace" THEN [optimized_for |-> "codespaces"] ELSE <<>>)

ErrorResponse(status, error) == [status |-> status, body |-> [error |-> error]]

INTERNAL == ErrorResponse(500, "Internal server error")

\* data.get('session_id', client_ip)
SessionId(r) == DataGet(r.data, "session_id", <<r.client_ip>>)

\* is_allowed consulted only for a request that passed validation
IsAllowedOnceValid(r, down) ==
    LET unchanged == [memory_store |-> memory_store, zset |-> zset,
                      requests |-> requests]
    IN  CASE ~r.is_json \/ Validate(app, r.kind, r.data) # NONE ->
                [allowed |-> TRUE, failed |-> FALSE] @@ unchanged
          [] limiter = "redis" /\ down ->
                [allowed |-> OnLimiterError, failed |-> TRUE] @@ unchanged
          [] limiter = "redis" /\ ~down ->
                LET a == RedisIsAllowed(zset, r.client_ip, now)
                IN  [allowed |-> a.allowed, failed |-> FALSE, zset |-> a.store]
                    @@ unchanged
          [] limiter = "memory" ->
                LET a == MemoryIsAllowed(memory_store, r.client_ip, now)
                IN  [allowed |-> a.allowed, failed |-> FALSE,
                     memory_store |-> a.store] @@ unchanged
          [] OTHER ->
                LET a == SimpleIsAllowed(requests, r.client_ip, now)
                IN  [allowed |-> a.allowed, failed |-> FALSE,
                     requests |-> a.store] @@ unchanged

\* self.rate_limiter.is_allowed(client_ip); down: the redis client raises
IsAllowed(r, down) ==
    LET unchanged == [memory_store |-> memory_store, zset |-> zset,
                      requests |-> requests]
    IN  CASE limiter = "redis" /\ down ->
                [allowed |-> OnLimiterError, failed |-> TRUE] @@ unchanged
          [] limiter = "redis" /\ ~down ->
                LET a == RedisIsAllowed(zset, r.client_ip, now)
                IN  [allowed |-> a.allowed, failed |-> FALSE, zset |-> a.store]
                    @@ unchanged
          [] limiter = "memory" ->
                LET a == MemoryIsAllowed(memory_store, r.client_ip, now)
                IN  [allowed |-> a.allowed, failed |-> FALSE,
                     memory_store |-> a.store] @@ unchanged
          [] OTHER ->
                LET a == SimpleIsAllowed(requests, r.client_ip, now)
                IN  [allowed |-> a.allowed, failed |-> FALSE,
                     requests |-> a.store] @@ unchanged

\* the request's parameters, with their defaults
Params(r) ==
    [text |-> r.data.text,
     source_lang |-> DataGet(r.data, "source_lang", AUTO),
     target_lang |-> DataGet(r.data, "target_lang", DefaultTarget(app)),
     style |-> DataGet(r.data, "style", GENERAL),
     use_context |-> Truthy(DataGet(r.data, "use_context", JTRUE))]

RequestKey(r) ==
    LET p == Params(r)
    IN  CacheKey(p.source_lang, p.target_lang, p.style, Hash(hash_seed, p.text))

\* a return that leaves the cache, the conversations and the translator alone
Return(response, lookup) ==
    [resp |-> response, cache |-> cache, conversations |-> conversations,
     call |-> call, result |-> result, backend_log |-> backend_log,
     lookup |-> lookup, invoked |-> 0, done |-> TRUE]

\* the handler up to and including the cache lookup
Early(r, allowed, down) ==
    LET validation_error == Validate(app, r.kind, r.data)
        found == CacheLookup(app, redis_up, cache, RequestKey(r), now)
    IN  IF ~allowed THEN Return(ErrorResponse(429, "Rate limit exceeded"), "none")
        ELSE IF ~r.is_json
        THEN Return(ErrorResponse(400, "Content-Type must be JSON"), "none")
        ELSE IF validation_error = RAISED THEN Return(INTERNAL, "none")
        ELSE IF validation_error # NONE
        THEN Return(ErrorResponse(400, validation_error), "none")
        ELSE IF app = "app" /\ redis_up /\ down THEN Return(INTERNAL, "none")
        ELSE IF found.found
        THEN Return([status |-> 200, body |-> Annotate(found.value)], "hit")
        ELSE [Return(INTERNAL, "miss") EXCEPT !.done = FALSE]

\* app.py: if use_context and self.conversation_manager
WithContext(r) == app = "app" /\ Params(r).use_context

\* the context of a request, from the conversation store conv
ContextFor(conv, r) ==
    IF WithContext(r) THEN GetContext(redis_up, conv, SessionId(r), now)
    ELSE <<>>

\* the conversation store conv after the request's exchange is recorded
Exchanged(conv, r, translated_text) ==
    IF WithContext(r)
    THEN AddExchange(redis_up, conv, SessionId(r), Params(r).text,
                     translated_text, now)
    ELSE conv

\* the handler after a cache miss: context, translation, history, response,
\* cache store
Late(r, outs, conf, guess, latency) ==
    LET p == Params(r)
        context == ContextFor(conversations, r)
        translation_result ==
            TranslatorTranslate(engine, ai_models, p.text, p.source_lang,
                                p.target_lang, outs, conf)
        response_data ==
            ResponseData(app, p.text, translation_result,
                         SourceLanguage(app, p.text, p.source_lang, guess),
                         p.target_lang, p.style, latency)
    IN  [resp |-> [status |-> 200, body |-> response_data],
         cache |-> CacheStore(app, redis_up, cache, RequestKey(r),
                              response_data, now),
         conversations |->
            Exchanged(conversations, r, translation_result.translated_text),
         call |-> [text |-> p.text, source_lang |-> p.source_lang,
                   target_lang |-> p.target_lang, style |-> p.style,
                   context |-> context],
         result |-> translation_result,
         backend_log |-> SubSeq(outs, 1, translation_result.calls),
         lookup |-> "miss", invoked |-> 1, done |-> TRUE]

\* what the backend may do during one request: return its translation or
\* raise, at each call
Outcomes(eng) ==
    LET outcomes == {o \in BackendOutcomes : o.text \in {<<>>, <<"m", "1">>}}
    IN  IF eng = "codespace" THEN [1..2 -> outcomes]
        ELSE {[i \in 1..2 |-> o] : o \in outcomes}

\* the confidence a request's translation may get
Confidences(eng) ==
    IF eng = "advanced" THEN {800} ELSE {0}

Guesses(text) == IF Len(Strip(text)) < DetectMin THEN {EN} ELSE {EN, FR}

Responded(r, down, adm, h) ==
    /\ memory_store' = adm.memory_store
    /\ zset' = adm.zset
    /\ requests' = adm.requests
    /\ Logged(r.client_ip, adm.allowed, adm.failed)
    /\ req' = r
    /\ resp' = h.resp
    /\ cache' = h.cache
    /\ conversations' = h.conversations
    /\ call' = h.call
    /\ result' = h.result
    /\ backend_log' = h.backend_log
    /\ trace' = [lookup |-> h.lookup, invoked |-> h.invoked, store_down |-> down]

\* POST /translate with a request of the set rs: what the handler does
Handled(rs) ==
    /\ handled < MaxRequests
    /\ \E r \in rs,
          down \in (IF app = "app" /\ redis_up THEN BOOLEAN ELSE {FALSE}) :
        LET adm == IsAllowed(r, down)
            early == Early(r, adm.allowed, down)
        IN  IF early.done THEN Responded(r, down, adm, early)
            ELSE \E outs \in Outcomes(engine), conf \in Confidences(engine),
                    guess \in Guesses(r.data.text), latency \in Latencies :
                    Responded(r, down, adm, Late(r, outs, conf, guess, latency))
    /\ handled' = handled + 1
    /\ UNCHANGED <<engine, ai_models, limiter, now, app, redis_up, hash_seed,
                   added>>

\* POST /translate with a request of the set rs
Handle(rs) == Handled(rs) /\ UNCHANGED shadow

\* POST /translate
HandleTranslateRequest == Handle(Requests(app))

\* time passes between requests, a window's length at a time
Wait ==
    /\ now + Window <= MaxTime
    /\ now' = now + Window
    /\ UNCHANGED <<limiter, memory_store, zset, requests, log>>
    /\ UNCHANGED engineVars
    /\ UNCHANGED apiVars

InitApi ==
    /\ app \in Apps
    /\ redis_up \in (IF app = "app" THEN BOOLEAN ELSE {FALSE})
    /\ hash_seed \in HashSeeds
    /\ engine = EngineOf(app)
    /\ ai_models = ModelLangs(engine)
    /\ limiter = LimiterOf(app, redis_up)
    /\ call = NoCall
    /\ result = NoResult
    /\ backend_log = <<>>
    /\ now = 0
    /\ memory_store = <<>>
    /\ zset = <<>>
    /\ requests = <<>>
    /\ log = [c \in Clients |-> <<>>]
    /\ cache = <<>>
    /\ conversations = <<>>
    /\ req = <<>>
    /\ resp = <<>>
    /\ handled = 0
    /\ trace = <<>>
    /\ shadow = <<>>
    /\ added = <<>>

Next ==
    \/ Wait
    \/ HandleTranslateRequest

Spec == InitApi /\ [][Next]_vars

(***************************************************************************)
(* The same requests with a deterministic backend, handled by the pipeline *)
(* and, side by side, by the pipeline with the response cache disabled.    *)
(***************************************************************************)
FORMALLY ==
    <<"Translate this formally and professionally: ">>

\* translation_engine.py _apply_style
ApplyStyle(text, style) == IF style = FORMAL THEN FORMALLY \o text ELSE text

\* the text given to the model: AdvancedTranslationEngine puts the style
\* prompt and the context before the text, the other engines pass the text
InputText(eng, text, style, context) ==
    IF eng # "advanced" THEN text
    ELSE IF context # <<>>
    THEN <<"Context: ">> \o context \o <<"\nTranslate: ">>
            \o ApplyStyle(text, style)
    ELSE ApplyStyle(text, style)

\* a deterministic backend: its output is a function of the target language
\* and the input text, different for different inputs
Backend(target_lang, input_text) ==
    [ok |-> TRUE, text |-> <<"m", ":">> \o target_lang \o <<":">> \o input_text]

\* what that backend does during the request, given the conversation store
DeterministicOuts(conv, r) ==
    LET p == Params(r)
        o == Backend(p.target_lang,
                     InputText(engine, p.text, p.style, ContextFor(conv, r)))
    IN  [i \in 1..2 |-> o]

\* the conversation store of the cache-disabled run
ShadowConversations == IF handled = 0 THEN <<>> ELSE shadow.conversations

\* the cache-disabled pipeline on an admitted, valid request: context,
\* translation, history
Uncached(r, conf) ==
    LET p == Params(r)
        translation_result ==
            TranslatorTranslate(engine, ai_models, p.text, p.source_lang,
                                p.target_lang,
                                DeterministicOuts(ShadowConversations, r), conf)
    IN  [conversations |->
            Exchanged(ShadowConversations, r, translation_result.translated_text),
         translated_text |-> translation_result.translated_text,
         resolved |-> TRUE]

\* POST /translate, answered by both pipelines
HandleTransparently ==
    /\ handled < MaxRequests
    /\ \E r \in Requests(app) :
        LET adm == IsAllowed(r, FALSE)
            early == Early(r, adm.allowed, FALSE)
        IN  \E conf \in Confidences(engine), latency \in Latencies :
                /\ Responded(r, FALSE, adm,
                        IF early.done THEN early
                        ELSE Late(r, DeterministicOuts(conversations, r), conf,
                                  EN, latency))
                /\ shadow' =
                        IF early.lookup # "none" THEN Uncached(r, conf)
                        ELSE [conversations |-> ShadowConversations,
                              translated_text |-> <<>>, resolved |-> FALSE]
    /\ handled' = handled + 1
    /\ UNCHANGED <<engine, ai_models, limiter, now, app, redis_up, hash_seed,
                   added>>

NextTransparency ==
    \/ Wait
    \/ HandleTransparently

SpecTransparency == InitApi /\ [][NextTransparency]_vars

(***************************************************************************)
(* The ConversationManager on its own: add_exchange and get_context calls  *)
(* on two sessions, while time passes and, with redis, while a read or a   *)
(* write of the store may raise.                                           *)
(***************************************************************************)
Sessions == {<<"c1">>, <<"s1">>}

UserTexts == {<<"a">>, <<"b">>}

\* the translation recorded with a user text
TranslationOf(user_text) == <<"t", ":">> \o user_text

\* _get_history when redis_client.get may raise: except: return []
GetHistoryDegraded(up, conv, session_id, t, read_fails) ==
    IF read_fails THEN <<>> ELSE GetHistory(up, conv, session_id, t)

\* get_context when the read may raise
GetContextDegraded(up, conv, session_id, t, read_fails) ==
    IF read_fails THEN <<>> ELSE GetContext(up, conv, session_id, t)

\* add_exchange with one history for all sessions
AddExchangeOneKey(up, conv, session_id, user_text, translation, t, rf, wf) ==
    LET exchange == [user_text |-> user_text, translation |-> translation,
                     timestamp |-> t]
        history == Append(GetHistoryDegraded(up, conv, session_id, t, rf),
                          exchange)
        kept == IF Len(history) > MaxHistory THEN LastN(history, MaxHistory)
                ELSE history
        other == CHOOSE s \in Sessions : s # session_id
    IN  IF ~up THEN Put(Put(conv, session_id, kept), other, kept)
        ELSE IF wf THEN conv
        ELSE SetEx(SetEx(conv, session_id, TTL, JsonDumps(kept), t),
                   other, TTL, JsonDumps(kept), t)

\* add_exchange when the read (rf) or the setex (wf) may raise: a failed read
\* gives the empty history, a failed write is caught and leaves the store as
\* it is
AddExchangeDegraded(up, conv, session_id, user_text, translation, t, rf, wf) ==
    LET exchange == [user_text |-> user_text, translation |-> translation,
                     timestamp |-> t]
        history == Append(GetHistoryDegraded(up, conv, session_id, t, rf),
                          exchange)
        kept == IF Len(history) > MaxHistory THEN LastN(history, MaxHistory)
                ELSE history
    IN  IF ~up THEN Put(conv, session_id, kept)
        ELSE IF wf THEN conv
        ELSE SetEx(conv, session_id, TTL, JsonDumps(kept), t)

\* the store raises only if there is one
Faults == IF redis_up THEN BOOLEAN ELSE {FALSE}

\* conversation_manager.add_exchange(session_id, user_text, translation)
AddExchangeCall ==
    /\ handled < MaxOps
    /\ \E session_id \in Sessions, user_text \in UserTexts,
          read_fails \in Faults, write_fails \in Faults :
        /\ conversations' =
                AddExchangeDegraded(redis_up, conversations, session_id, user_text,
                                    TranslationOf(user_text), now,
                                    read_fails, write_fails)
        /\ added' = IF write_fails THEN added
                    ELSE [added EXCEPT ![session_id] =
                            Append(@, [user_text |-> user_text,
                                       translation |-> TranslationOf(user_text),
                                       timestamp |-> now])]
        /\ req' = [op |-> "add_exchange", session_id |-> session_id,
                   read_fails |-> read_fails, write_fails |-> write_fails]
        /\ resp' = [raised |-> FALSE, value |-> <<>>]
    /\ handled' = handled + 1
    /\ UNCHANGED <<app, redis_up, hash_seed, cache, trace, shadow>>
    /\ UNCHANGED engineVars
    /\ UNCHANGED limiterVars

\* conversation_manager.get_context(session_id)
GetContextCall ==
    /\ handled < MaxOps
    /\ \E session_id \in Sessions, read_fails \in Faults :
        /\ req' = [op |-> "get_context", session_id |-> session_id,
                   read_fails |-> read_fails, write_fails |-> FALSE]
        /\ resp' = [raised |-> FALSE,
                    value |-> GetContextDegraded(redis_up, conversations,
                                                 session_id, now, read_fails)]
    /\ handled' = handled + 1
    /\ UNCHANGED <<app, redis_up, hash_seed, cache, conversations, trace, shadow,
                   added>>
    /\ UNCHANGED engineVars
    /\ UNCHANGED limiterVars

InitConversation ==
    /\ app = "app"
    /\ redis_up \in BOOLEAN
    /\ hash_seed = 0
    /\ cache = <<>>
    /\ conversations = <<>>
    /\ req = <<>>
    /\ resp = <<>>
    /\ handled = 0
    /\ trace = <<>>
    /\ shadow = <<>>
    /\ added = [s \in Sessions |-> <<>>]
    /\ EngineIdle
    /\ LimiterIdle

NextConversation ==
    \/ Tick
    \/ AddExchangeCall
    \/ GetContextCall

SpecConversation == InitConversation /\ [][NextConversation]_vars

(***************************************************************************)
(* app.py with redis while the store fails during a request: in the        *)
(* ConversationManager's calls only, or on every write (setex, and the     *)
(* rate limiter's pipeline).                                               *)
(***************************************************************************)
FaultSchedules == {"none", "context", "writes"}

\* the handler after a cache miss under a fault schedule
LateDegraded(r, outs, conf, guess, latency, fault) ==
    LET late == Late(r, outs, conf, guess, latency)
        context ==
            IF WithContext(r)
            THEN GetContextDegraded(redis_up, conversations, SessionId(r), now,
                                    fault = "context")
            ELSE <<>>
        history ==
            IF WithContext(r)
            THEN AddExchangeDegraded(redis_up, conversations, SessionId(r),
                                     Params(r).text, late.result.translated_text,
                                     now, fault = "context", TRUE)
            ELSE conversations
    IN  CASE fault = "none" -> late
          [] fault = "context" ->
                [late EXCEPT !.call.context = context, !.conversations = history]
          [] OTHER ->
                \* redis_client.setex(cache_key, ...) raises: except Exception
                [late EXCEPT !.conversations = history, !.cache = cache,
                             !.resp = INTERNAL]

\* POST /translate on app.py with redis, the store failing as the schedule says
HandleDegraded ==
    /\ handled < MaxDegraded
    /\ \E r \in Requests(app), fault \in FaultSchedules :
        LET adm == IsAllowed(r, fault = "writes")
            early == Early(r, adm.allowed, FALSE)
        IN  IF early.done THEN Responded(r, fault # "none", adm, early)
            ELSE \E outs \in Outcomes(engine), conf \in Confidences(engine),
                    guess \in Guesses(r.data.text), latency \in Latencies :
                    Responded(r, fault # "none", adm,
                              LateDegraded(r, outs, conf, guess, latency, fault))
    /\ handled' = handled + 1
    /\ UNCHANGED <<engine, ai_models, limiter, now, app, redis_up, hash_seed,
                   shadow, added>>

InitDegraded == InitApi /\ app = "app" /\ redis_up /\ hash_seed = 0

NextDegraded ==
    \/ Wait
    \/ HandleDegraded

SpecDegraded == InitDegraded /\ [][NextDegraded]_vars

(***************************************************************************)
(* /translate at the boundary of the text validation: texts that are       *)
(* missing, empty, of exactly the maximal length and one longer.           *)
(***************************************************************************)
BoundaryTexts(a) == {ABSENT, <<>>, Rep(MaxText(a)), Rep(MaxText(a) + 1)}

BoundaryRequests(a) ==
    [client_ip : Callers, is_json : {TRUE}, kind : {"object"},
     data : {[o EXCEPT !.text = t] :
                o \in {NoObject, [NoObject EXCEPT !.target_lang = ES]},
                t \in BoundaryTexts(a)}]

HandleBoundary == Handle(BoundaryRequests(app))

NextBoundary ==
    \/ Wait
    \/ HandleBoundary

SpecBoundary == InitApi /\ [][NextBoundary]_vars

(***************************************************************************)
(* _handle_batch_translate.  The elements of texts are strings or, for a   *)
(* malformed element, a number.                                            *)
(***************************************************************************)
\* a body without the key 'texts'
NOTEXTS == <<ABSENT>>

\* the limit, were the test len(texts) >= 100
BatchLimitExclusive(a) == (IF a = "codespace" THEN SmallBatch ELSE MaxBatch) - 1

\* len(texts) > 100 (codespace_app.py: > 20)
BatchLimit(a) == IF a = "codespace" THEN SmallBatch ELSE MaxBatch

\* translate() on an element that is not a string: text.lower() raises in the
\* dictionary lookup when the target has a table, a backend given a number
\* raises, and the outer except makes the error result; translation_engine.py
\* falls back to the element itself
MalformedTranslate(eng, models, text, source_lang, target_lang) ==
    LET applicable == BackendApplicable(models, source_lang, target_lang)
        method == IF eng = "codespaces" THEN "absent" ELSE "error"
    IN  CASE eng = "advanced" -> Res(text, 0, "absent", TRUE, TRUE, 0)
          [] eng = "codespace" ->
                LET n1 == IF applicable THEN 1 ELSE 0
                IN  IF target_lang \in DOMAIN LightweightTranslations
                    THEN Res(ErrorText(text), 0, "error", FALSE, TRUE, n1)
                    ELSE Res(Placeholder(target_lang, text), 100, "fallback",
                             FALSE, FALSE,
                             IF target_lang = ES /\ applicable THEN n1 + 1 ELSE n1)
          [] OTHER ->
                IF target_lang \in DOMAIN Translations(eng)
                THEN Res(ErrorText(text), 0, method, FALSE, TRUE, 0)
                ELSE IF applicable
                THEN Res(ErrorText(text), 0, method, FALSE, TRUE, 1)
                ELSE Res(Placeholder(target_lang, text), 0,
                         IF eng = "codespaces" THEN "absent"
                         ELSE "fallback_placeholder", FALSE, FALSE, 0)

\* self.translator.translate(text=text, ...) on one element of a batch
TranslateElement(eng, models, text, source_lang, target_lang, outs, conf) ==
    IF text = NUMBER
    THEN MalformedTranslate(eng, models, text, source_lang, target_lang)
    ELSE TranslatorTranslate(eng, models, text, source_lang, target_lang, outs, conf)

\* one entry of results
BatchItem(a, text, res) ==
    [original |-> text, translated |-> res.translated_text,
     confidence |-> res.confidence]
    @@ (IF a \in {"main", "codespace"} THEN [method |-> res.method] ELSE <<>>)

\* the parameters of a batch, with their defaults
BatchParams(a, data) ==
    [source_lang |-> DataGet(data, "source_lang", AUTO),
     target_lang |-> DataGet(data, "target_lang", DefaultTarget(a)),
     style |-> DataGet(data, "style", GENERAL)]

\* the results of the loop over texts; outs[i] is what the backend does for
\* element i
BatchResults(a, eng, models, data, outs, conf) ==
    LET p == BatchParams(a, data)
    IN  [i \in DOMAIN data.texts |->
            TranslateElement(eng, models, data.texts[i], p.source_lang,
                             p.target_lang, outs[i], conf)]

\* the loop with "for text in texts[:1]": only the first element is resolved
BatchTranslateFirst(a, eng, models, data, outs, conf) ==
    LET p == BatchParams(a, data)
        results == BatchResults(a, eng, models, data, outs, conf)
        first == SubSeq(data.texts, 1, IF data.texts = <<>> THEN 0 ELSE 1)
    IN  IF data.texts = NOTEXTS
        THEN [resp |-> ErrorResponse(400, "Missing texts array"), results |-> <<>>]
        ELSE IF Len(data.texts) > BatchLimit(a)
        THEN [resp |-> ErrorResponse(400, "Maximum texts per batch"),
              results |-> <<>>]
        ELSE [resp |->
                [status |-> 200,
                 body |-> [results |-> [i \in DOMAIN first |->
                                          BatchItem(a, first[i], results[i])],
                           total_count |-> Len(first),
                           source_language |-> p.source_lang,
                           target_language |-> p.target_lang]],
              results |-> SubSeq(results, 1, Len(first))]

\* the handler, were an element's exception not caught inside translate(): the
\* handler's except answers 500 for the whole batch
BatchTranslateAborting(a, eng, models, data, outs, conf) ==
    LET p == BatchParams(a, data)
        results == BatchResults(a, eng, models, data, outs, conf)
    IN  IF data.texts = NOTEXTS
        THEN [resp |-> ErrorResponse(400, "Missing texts array"), results |-> <<>>]
        ELSE IF Len(data.texts) > BatchLimit(a)
        THEN [resp |-> ErrorResponse(400, "Maximum texts per batch"),
              results |-> <<>>]
        ELSE IF \E i \in DOMAIN results : results[i].exception
        THEN [resp |-> INTERNAL, results |-> results]
        ELSE [resp |->
                [status |-> 200,
                 body |-> [results |-> [i \in DOMAIN data.texts |->
                                          BatchItem(a, data.texts[i], results[i])],
                           total_count |-> Len(results),
                           source_language |-> p.source_lang,
                           target_language |-> p.target_lang]],
              results |-> results]

\* _handle_batch_translate: the response, and the translator's results
BatchTranslate(a, eng, models, data, outs, conf) ==
    LET p == BatchParams(a, data)
        results == BatchResults(a, eng, models, data, outs, conf)
    IN  IF data.texts = NOTEXTS
        THEN [resp |-> ErrorResponse(400, "Missing texts array"), results |-> <<>>]
        ELSE IF Len(data.texts) > BatchLimit(a)
        THEN [resp |-> ErrorResponse(400, "Maximum texts per batch"),
              results |-> <<>>]
        ELSE [resp |->
                [status |-> 200,
                 body |-> [results |-> [i \in DOMAIN data.texts |->
                                          BatchItem(a, data.texts[i], results[i])],
                           total_count |-> Len(results),
                           source_language |-> p.source_lang,
                           target_language |-> p.target_lang]],
              results |-> results]

NoBatch == [texts |-> NOTEXTS, source_lang |-> ABSENT, target_lang |-> ABSENT,
            style |-> ABSENT]

\* the texts arrays of the batches: the prefixes within the limit of two
\* arrays, one of them with a malformed element, one array beyond the limit,
\* and no array
BatchTexts(a) ==
    {SubSeq(t, 1, n) : t \in {<<<<"b">>, NUMBER, <<"a">>, <<"b">>>>,
                               <<<<"a">>, <<"b">>, <<"b">>, <<"a">>>>},
                       n \in 0..BatchLimit(a)}
    \cup {[i \in 1..(BatchLimit(a) + 1) |-> <<"a">>], NOTEXTS}

BatchRequests(a) ==
    [client_ip : Callers, is_json : {TRUE}, kind : {"batch"},
     data : {[NoBatch EXCEPT !.texts = t, !.target_lang = l] :
                t \in BatchTexts(a), l \in {ABSENT, ES, XX}}]

\* what the backend does for the elements of one batch: it works for every
\* element, raises for every element, or raises for the first element only
BatchOutcomes(eng, n) ==
    LET works == [j \in 1..2 |-> [ok |-> TRUE, text |-> <<"m", "1">>]]
        raises == [j \in 1..2 |-> [ok |-> FALSE, text |-> <<>>]]
    IN  {[i \in 1..n |-> works], [i \in 1..n |-> raises],
         [i \in 1..n |-> IF i = 1 THEN raises ELSE works]}

\* POST /batch-translate
HandleBatchTranslate ==
    /\ handled < MaxRequests
    /\ \E r \in BatchRequests(app) :
        \E outs \in BatchOutcomes(engine, IF r.data.texts = NOTEXTS THEN 0
                                         ELSE Len(r.data.texts)),
           conf \in Confidences(engine) :
            LET h == BatchTranslate(app, engine, ai_models, r.data, outs, conf)
                p == BatchParams(app, r.data)
                n == Len(h.results)
            IN  /\ req' = r
                /\ resp' = h.resp
                /\ call' = IF n = 0 THEN call
                           ELSE [text |-> r.data.texts[n],
                                 source_lang |-> p.source_lang,
                                 target_lang |-> p.target_lang,
                                 style |-> p.style, context |-> <<>>]
                /\ result' = IF n = 0 THEN result ELSE h.results[n]
                /\ backend_log' = IF n = 0 THEN backend_log
                                  ELSE SubSeq(outs[n], 1, h.results[n].calls)
                /\ trace' = [lookup |-> "none", invoked |-> n,
                             store_down |-> FALSE, outs |-> outs,
                             conf |-> conf]
    /\ handled' = handled + 1
    /\ UNCHANGED <<engine, ai_models, app, redis_up, hash_seed, cache,
                   conversations, shadow, added>>
    /\ UNCHANGED limiterVars

\* the /translate requests made next to the batches
SingleRequests(a) ==
    [client_ip : Callers, is_json : {TRUE}, kind : {"object"},
     data : {[o EXCEPT !.text = <<"a">>] :
                o \in {NoObject, [NoObject EXCEPT !.target_lang = XX]}}]

HandleSingle == Handle(SingleRequests(app))

NextBatch ==
    \/ Wait
    \/ HandleSingle
    \/ HandleBatchTranslate

InitBatch == InitApi /\ hash_seed = 0

SpecBatch == InitBatch /\ [][NextBatch]_vars

(***************************************************************************)
(* app.py's _handle_translate_request statement by statement.  trace is    *)
(* the request in flight: where it is (pc), the steps it has performed,    *)
(* the cache and the histories as they were when it arrived, and its       *)
(* locals.                                                                 *)
(***************************************************************************)
\* the same steps with the cache store moved before add_exchange
OrderStoreFirst == <<"admission", "lookup", "context", "translate", "store",
                     "add_exchange", "response">>

\* the steps in the order of the handler's statements
Order == <<"admission", "lookup", "context", "translate", "add_exchange",
           "store", "response">>

\* a handler that fetches the context and records the exchange whatever
\* use_context says
AppliesContextAlways(step, r) ==
    CASE step \in {"lookup", "store"} -> redis_up
      [] OTHER -> TRUE

\* if self.redis_client: ... / if use_context and self.conversation_manager: ...
Applies(step, r) ==
    CASE step \in {"lookup", "store"} -> redis_up
      [] step \in {"context", "add_exchange"} -> WithContext(r)
      [] OTHER -> TRUE

Position(step) == CHOOSE i \in DOMAIN Order : Order[i] = step

\* the step the handler goes on with after step
NextStep(step, r) ==
    LET later == {i \in DOMAIN Order : i > Position(step) /\ Applies(Order[i], r)}
    IN  Order[CHOOSE i \in later : \A j \in later : i <= j]

IdleFrame ==
    [pc |-> "idle", steps |-> <<>>,
     before |-> [cache |-> <<>>, conversations |-> <<>>],
     context |-> <<>>, response |-> INTERNAL]

PipelineRequests ==
    [client_ip : Callers, is_json : {TRUE}, kind : {"object"},
     data : {[o EXCEPT !.text = <<"a">>] :
                o \in {NoObject, [NoObject EXCEPT !.use_context = JFALSE],
                       [NoObject EXCEPT !.target_lang = XX]}}]

\* the frame after step, going on with pc
Stepped(step, pc) == [trace EXCEPT !.pc = pc, !.steps = Append(@, step)]

\* a request arrives
Arrive ==
    /\ trace.pc = "idle"
    /\ handled < MaxRequests
    /\ \E r \in PipelineRequests :
        /\ req' = r
        /\ trace' = [IdleFrame EXCEPT
                        !.pc = "admission",
                        !.before = [cache |-> cache,
                                    conversations |-> conversations]]
    /\ UNCHANGED <<app, redis_up, hash_seed, cache, conversations, resp, handled,
                   shadow, added>>
    /\ UNCHANGED engineVars
    /\ UNCHANGED limiterVars

\* app.py:130-142: rate limiting, then validation
Admission ==
    /\ trace.pc = "admission"
    /\ LET adm == IsAllowed(req, FALSE)
           validation_error == Validate(app, req.kind, req.data)
           response ==
               IF ~adm.allowed THEN ErrorResponse(429, "Rate limit exceeded")
               ELSE IF validation_error # NONE
               THEN ErrorResponse(400, validation_error)
               ELSE INTERNAL
       IN  /\ memory_store' = adm.memory_store
           /\ zset' = adm.zset
           /\ requests' = adm.requests
           /\ Logged(req.client_ip, adm.allowed, adm.failed)
           /\ trace' = [Stepped("admission",
                                IF adm.allowed /\ validation_error = NONE
                                THEN NextStep("admission", req) ELSE "response")
                            EXCEPT !.response = response]
    /\ UNCHANGED <<limiter, now>>
    /\ UNCHANGED <<app, redis_up, hash_seed, cache, conversations, req, resp,
                   handled, shadow, added>>
    /\ UNCHANGED engineVars

\* a hit that records its exchange and stores again before it returns
AfterLookupRecording(found, r) ==
    IF found /\ ~WithContext(r) THEN "response"
    ELSE IF found THEN "add_exchange"
    ELSE NextStep("lookup", r)

\* if cached_result: ... return jsonify(response_data)
AfterLookup(found, r) ==
    IF found THEN "response" ELSE NextStep("lookup", r)

\* app.py:151-161: check cache
Lookup ==
    /\ trace.pc = "lookup"
    /\ LET found == CacheLookup(app, redis_up, cache, RequestKey(req), now)
       IN  trace' = IF found.found
                    THEN [Stepped("lookup", AfterLookup(TRUE, req)) EXCEPT
                            !.response = [status |-> 200,
                                          body |-> Annotate(found.value)]]
                    ELSE Stepped("lookup", AfterLookup(FALSE, req))
    /\ UNCHANGED <<app, redis_up, hash_seed, cache, conversations, req, resp,
                   handled, shadow, added>>
    /\ UNCHANGED engineVars
    /\ UNCHANGED limiterVars

\* app.py:163-167: get conversation context
Context ==
    /\ trace.pc = "context"
    /\ trace' = [Stepped("context", NextStep("context", req)) EXCEPT
                    !.context = ContextFor(conversations, req)]
    /\ UNCHANGED <<app, redis_up, hash_seed, cache, conversations, req, resp,
                   handled, shadow, added>>
    /\ UNCHANGED engineVars
    /\ UNCHANGED limiterVars

\* app.py:169-178: perform translation
TranslateStep ==
    /\ trace.pc = "translate"
    /\ \E outs \in Outcomes(engine), conf \in Confidences(engine) :
        LET p == Params(req)
            translation_result ==
                TranslatorTranslate(engine, ai_models, p.text, p.source_lang,
                                    p.target_lang, outs, conf)
        IN  /\ call' = [text |-> p.text, source_lang |-> p.source_lang,
                        target_lang |-> p.target_lang, style |-> p.style,
                        context |-> trace.context]
            /\ result' = translation_result
            /\ backend_log' = SubSeq(outs, 1, translation_result.calls)
            /\ trace' = [Stepped("translate", NextStep("translate", req)) EXCEPT
                            !.response =
                                [status |-> 200,
                                 body |-> ResponseData(app, p.text,
                                            translation_result,
                                            SourceLanguage(app, p.text,
                                                           p.source_lang, EN),
                                            p.target_lang, p.style, 1)]]
    /\ UNCHANGED <<engine, ai_models>>
    /\ UNCHANGED <<app, redis_up, hash_seed, cache, conversations, req, resp,
                   handled, shadow, added>>
    /\ UNCHANGED limiterVars

\* app.py:180-187: store in conversation history
AddExchangeStep ==
    /\ trace.pc = "add_exchange"
    /\ conversations' = Exchanged(conversations, req, result.translated_text)
    /\ trace' = Stepped("add_exchange", NextStep("add_exchange", req))
    /\ UNCHANGED <<app, redis_up, hash_seed, cache, req, resp, handled, shadow,
                   added>>
    /\ UNCHANGED engineVars
    /\ UNCHANGED limiterVars

\* app.py:201-205: cache result
Store ==
    /\ trace.pc = "store"
    /\ cache' = CacheStore(app, redis_up, cache, RequestKey(req),
                           trace.response.body, now)
    /\ trace' = Stepped("store", NextStep("store", req))
    /\ UNCHANGED <<app, redis_up, hash_seed, conversations, req, resp, handled,
                   shadow, added>>
    /\ UNCHANGED engineVars
    /\ UNCHANGED limiterVars

\* return jsonify(...)
Respond ==
    /\ trace.pc = "response"
    /\ resp' = trace.response
    /\ trace' = Stepped("response", "idle")
    /\ handled' = handled + 1
    /\ UNCHANGED <<app, redis_up, hash_seed, cache, conversations, req, shadow,
                   added>>
    /\ UNCHANGED engineVars
    /\ UNCHANGED limiterVars

InitPipeline ==
    /\ app = "app"
    /\ redis_up \in BOOLEAN
    /\ hash_seed = 0
    /\ engine = EngineOf(app)
    /\ ai_models = ModelLangs(engine)
    /\ limiter = LimiterOf(app, redis_up)
    /\ call = NoCall
    /\ result = NoResult
    /\ backend_log = <<>>
    /\ now = 0
    /\ memory_store = <<>>
    /\ zset = <<>>
    /\ requests = <<>>
    /\ log = [c \in Clients |-> <<>>]
    /\ cache = <<>>
    /\ conversations = <<>>
    /\ req = <<>>
    /\ resp = <<>>
    /\ handled = 0
    /\ trace = IdleFrame
    /\ shadow = <<>>
    /\ added = <<>>

NextPipeline ==
    \/ Tick
    \/ Wait
    \/ Arrive
    \/ Admission
    \/ Lookup
    \/ Context
    \/ TranslateStep
    \/ AddExchangeStep
    \/ Store
    \/ Respond

SpecPipeline == InitPipeline /\ [][NextPipeline]_vars

(***************************************************************************)
(* is_allowed called by several request threads (the development server    *)
(* runs one thread per request) for one client.  Neither limiter takes a   *)
(* lock, so a thread can be preempted between any two statements, and      *)
(* between the evaluation of a right-hand side and its assignment.  trace  *)
(* holds each thread's position and locals.                                *)
(***************************************************************************)
Threads == {"t1", "t2"}

Client == "c1"

NoFrame == [pc |-> "idle", current_time |-> 0, kept |-> <<>>, cleaned |-> <<>>,
            current_count |-> 0]

InFlight == Cardinality({t \in Threads : trace[t].pc # "idle"})

\* what a limiter call leaves alone
ThreadFrame ==
    /\ UNCHANGED <<app, redis_up, hash_seed, cache, conversations, req, resp,
                   handled, shadow, added>>
    /\ UNCHANGED engineVars

\* the call returns
Returned(t, allowed) ==
    /\ log' = [log EXCEPT ![Client] =
                  Append(@, [time |-> trace[t].current_time,
                             allowed |-> allowed, failed |-> FALSE])]
    /\ trace' = [trace EXCEPT ![t] = NoFrame]

\* current_time = int(time.time()); if client_ip not in store: store[client_ip] = ...
Enter(t) ==
    /\ trace[t].pc = "idle"
    /\ limiter \in {"memory", "simple"}
    /\ Calls + InFlight < MaxThreadCalls
    /\ trace' = [trace EXCEPT ![t] = [NoFrame EXCEPT !.pc = "clean",
                                                     !.current_time = now]]
    /\ memory_store' = IF limiter = "memory" /\ Client \notin DOMAIN memory_store
                       THEN Put(memory_store, Client, <<>>) ELSE memory_store
    /\ requests' = IF limiter = "simple" /\ Client \notin DOMAIN requests
                   THEN Put(requests, Client, <<>>) ELSE requests
    /\ UNCHANGED <<limiter, now, zset, log>>
    /\ ThreadFrame

\* the right-hand side of the clean-up: the entries that are kept
Clean(t) ==
    /\ trace[t].pc = "clean"
    /\ trace' = [trace EXCEPT ![t] =
          [@ EXCEPT !.pc = "assign",
                    !.kept = IF limiter = "memory"
                             THEN CleanOld(memory_store[Client],
                                           trace[t].current_time - Window)
                             ELSE <<>>,
                    !.cleaned =
                        IF limiter = "simple"
                        THEN [k \in {k \in DOMAIN requests[Client] :
                                        k >= (trace[t].current_time \div Window) - 1}
                                |-> requests[Client][k]]
                        ELSE <<>>]]
    /\ UNCHANGED <<limiter, now, memory_store, zset, requests, log>>
    /\ ThreadFrame

\* the assignment of the clean-up
Assign(t) ==
    /\ trace[t].pc = "assign"
    /\ memory_store' = IF limiter = "memory"
                       THEN Put(memory_store, Client, trace[t].kept)
                       ELSE memory_store
    /\ requests' = IF limiter = "simple"
                   THEN Put(requests, Client, trace[t].cleaned) ELSE requests
    /\ trace' = [trace EXCEPT ![t].pc = "check"]
    /\ UNCHANGED <<limiter, now, zset, log>>
    /\ ThreadFrame

\* if len(self.memory_store[client_ip]) >= self.limit: return False
\* current_count = ...get(minute_key, 0); if current_count >= self.limit: return False
CheckLimit(t) ==
    /\ trace[t].pc = "check"
    /\ LET current_count ==
               IF limiter = "memory" THEN Len(memory_store[Client])
               ELSE Get(requests[Client], trace[t].current_time \div Window, 0)
       IN  IF current_count >= Limit
           THEN Returned(t, FALSE)
           ELSE /\ trace' = [trace EXCEPT ![t].pc = "record",
                                          ![t].current_count = current_count]
                /\ UNCHANGED log
    /\ UNCHANGED <<limiter, now, memory_store, zset, requests>>
    /\ ThreadFrame

\* self.memory_store[client_ip].append(current_time); return True
\* self.requests[client_ip][minute_key] = current_count + 1; return True
Record(t) ==
    /\ trace[t].pc = "record"
    /\ memory_store' = IF limiter = "memory"
                       THEN [memory_store EXCEPT ![Client] =
                                Append(@, trace[t].current_time)]
                       ELSE memory_store
    /\ requests' = IF limiter = "simple"
                   THEN [requests EXCEPT ![Client] =
                            Put(@, trace[t].current_time \div Window,
                                trace[t].current_count + 1)]
                   ELSE requests
    /\ Returned(t, TRUE)
    /\ UNCHANGED <<limiter, now, zset>>
    /\ ThreadFrame

InitThreads ==
    /\ limiter \in {"memory", "simple"}
    /\ now = 0
    /\ memory_store = <<>>
    /\ zset = <<>>
    /\ requests = <<>>
    /\ log = [c \in Clients |-> <<>>]
    /\ EngineIdle
    /\ app = "main"
    /\ redis_up = FALSE
    /\ hash_seed = 0
    /\ cache = <<>>
    /\ conversations = <<>>
    /\ req = <<>>
    /\ resp = <<>>
    /\ handled = 0
    /\ trace = [t \in Threads |-> NoFrame]
    /\ shadow = <<>>
    /\ added = <<>>

NextThreads ==
    \/ Tick
    \/ \E t \in Threads : Enter(t)
    \/ \E t \in Threads : Clean(t)
    \/ \E t \in Threads : Assign(t)
    \/ \E t \in Threads : CheckLimit(t)
    \/ \E t \in Threads : Record(t)

SpecThreads == InitThreads /\ [][NextThreads]_vars

(***************************************************************************)
(* add_exchange called by several request threads for one session.  The    *)
(* manager takes no lock: with redis the history is read, changed locally  *)
(* and written back; in the in-process store the session's list is         *)
(* created, appended to and trimmed in separate statements.                *)
(***************************************************************************)
Session == <<"s1">>

\* each thread adds exchanges of a user text of its own
TextOf(t) == IF t = "t1" THEN <<"a">> ELSE <<"b">>

NoExchange == [user_text |-> <<>>, translation |-> <<>>, timestamp |-> 0]

NoAdd == [pc |-> "idle", exchange |-> NoExchange, history |-> <<>>]

\* what an add_exchange statement leaves alone
AddFrame ==
    /\ UNCHANGED <<app, redis_up, hash_seed, cache, req, resp, handled, shadow>>
    /\ UNCHANGED engineVars
    /\ UNCHANGED limiterVars

\* add_exchange returns
Added(t) ==
    /\ added' = [added EXCEPT ![Session] = Append(@, trace[t].exchange)]
    /\ trace' = [trace EXCEPT ![t] = NoAdd]

\* exchange = {...}
BeginAdd(t) ==
    /\ trace[t].pc = "idle"
    /\ Len(added[Session]) + InFlight < MaxAdds
    /\ trace' = [trace EXCEPT ![t] =
          [NoAdd EXCEPT !.pc = IF redis_up THEN "read" ELSE "test",
                        !.exchange = [user_text |-> TextOf(t),
                                      translation |-> TranslationOf(TextOf(t)),
                                      timestamp |-> now]]]
    /\ UNCHANGED <<conversations, added>>
    /\ AddFrame

\* history = self._get_history(session_id)
ReadHistory(t) ==
    /\ trace[t].pc = "read"
    /\ trace' = [trace EXCEPT ![t].pc = "write",
                              ![t].history =
                                  GetHistory(TRUE, conversations, Session, now)]
    /\ UNCHANGED <<conversations, added>>
    /\ AddFrame

\* history.append(exchange); trim; self.redis_client.setex(key, 3600, json.dumps(history))
WriteHistory(t) ==
    /\ trace[t].pc = "write"
    /\ LET history == Append(trace[t].history, trace[t].exchange)
           kept == IF Len(history) > MaxHistory THEN LastN(history, MaxHistory)
                   ELSE history
       IN  conversations' = SetEx(conversations, Session, TTL, JsonDumps(kept), now)
    /\ Added(t)
    /\ AddFrame

\* if session_id not in self.memory_store:
TestSession(t) ==
    /\ trace[t].pc = "test"
    /\ trace' = [trace EXCEPT ![t].pc = IF Session \in DOMAIN conversations
                                        THEN "append" ELSE "create"]
    /\ UNCHANGED <<conversations, added>>
    /\ AddFrame

\* self.memory_store[session_id] = []
CreateSession(t) ==
    /\ trace[t].pc = "create"
    /\ conversations' = Put(conversations, Session, <<>>)
    /\ trace' = [trace EXCEPT ![t].pc = "append"]
    /\ UNCHANGED added
    /\ AddFrame

\* self.memory_store[session_id].append(exchange)
AppendExchange(t) ==
    /\ trace[t].pc = "append"
    /\ conversations' = [conversations EXCEPT ![Session] =
                            Append(@, trace[t].exchange)]
    /\ trace' = [trace EXCEPT ![t].pc = "trim"]
    /\ UNCHANGED added
    /\ AddFrame

\* if len(self.memory_store[session_id]) > self.max_history: the slice
TrimHistory(t) ==
    /\ trace[t].pc = "trim"
    /\ IF Len(conversations[Session]) > MaxHistory
       THEN /\ trace' = [trace EXCEPT ![t].pc = "assign",
                                      ![t].history =
                                          LastN(conversations[Session], MaxHistory)]
            /\ UNCHANGED added
       ELSE Added(t)
    /\ UNCHANGED conversations
    /\ AddFrame

\* self.memory_store[session_id] = ...[-self.max_history:]
AssignHistory(t) ==
    /\ trace[t].pc = "assign"
    /\ conversations' = Put(conversations, Session, trace[t].history)
    /\ Added(t)
    /\ AddFrame

InitAdds ==
    /\ app = "app"
    /\ redis_up \in BOOLEAN
    /\ hash_seed = 0
    /\ cache = <<>>
    /\ conversations = <<>>
    /\ req = <<>>
    /\ resp = <<>>
    /\ handled = 0
    /\ trace = [t \in Threads |-> NoAdd]
    /\ shadow = <<>>
    /\ added = [s \in Sessions |-> <<>>]
    /\ EngineIdle
    /\ LimiterIdle

NextAdds ==
    \/ Tick
    \/ \E t \in Threads : BeginAdd(t)
    \/ \E t \in Threads : ReadHistory(t)
    \/ \E t \in Threads : WriteHistory(t)
    \/ \E t \in Threads : TestSession(t)
    \/ \E t \in Threads : CreateSession(t)
    \/ \E t \in Threads : AppendExchange(t)
    \/ \E t \in Threads : TrimHistory(t)
    \/ \E t \in Threads : AssignHistory(t)

SpecAdds == InitAdds /\ [][NextAdds]_vars

(***************************************************************************)
(* The response cache over time.  shadow remembers, for every key of the   *)
(* cache, when its entry was stored.                                       *)
(***************************************************************************)
ExpiryRequests(a) ==
    [client_ip : Callers, is_json : {TRUE}, kind : {"object"},
     data : {[NoObject EXCEPT !.text = text, !.source_lang = source_lang,
                              !.use_context = JFALSE] :
                text \in {<<"a">>, <<"b">>}, source_lang \in {ABSENT, EN}}]

\* the storing times after a request
Stamped(before, after, stamps, t) ==
    [k \in DOMAIN after |->
        IF k \notin DOMAIN before \/ after[k] # before[k] THEN t ELSE stamps[k]]

\* POST /translate
HandleStamped ==
    /\ Handled(ExpiryRequests(app))
    /\ shadow' = Stamped(cache, cache', shadow, now)

InitExpiry == InitApi /\ hash_seed = 0

NextExpiry == Wait \/ HandleStamped

SpecExpiry == InitExpiry /\ [][NextExpiry]_vars

(***************************************************************************)
(* A request whose translation calls the backend model.  The engines call  *)
(* self.ai_models[target_lang](text) and wait for it: the call is the      *)
(* backend's to finish, and a backend that hangs never finishes it.        *)
(***************************************************************************)
BackendRequests(a) ==
    [client_ip : Callers, is_json : {TRUE}, kind : {"object"},
     data : {[NoObject EXCEPT !.text = text, !.target_lang = ES] :
                text \in {<<"a">>, <<"b">>}}]

NoWork == [pc |-> "idle", hangs |-> FALSE, response |-> INTERNAL]

\* whether translate() calls the backend model for the request
CallsBackend(r) ==
    LET p == Params(r)
        outs == CHOOSE o \in Outcomes(engine) : TRUE
        conf == CHOOSE c \in Confidences(engine) : TRUE
    IN  TranslatorTranslate(engine, ai_models, p.text, p.source_lang,
                            p.target_lang, outs, conf).calls > 0

\* translate() has returned and the handler has gone on to its return
Translated(late) ==
    /\ cache' = late.cache
    /\ conversations' = late.conversations
    /\ call' = late.call
    /\ result' = late.result
    /\ backend_log' = late.backend_log
    /\ trace' = [trace EXCEPT !.pc = "respond", !.response = late.resp]

\* the handler up to the cache lookup
Receive ==
    /\ trace.pc = "idle"
    /\ handled < MaxRequests
    /\ \E r \in BackendRequests(app) :
        LET adm == IsAllowed(r, FALSE)
            early == Early(r, adm.allowed, FALSE)
        IN  /\ memory_store' = adm.memory_store
            /\ zset' = adm.zset
            /\ requests' = adm.requests
            /\ Logged(r.client_ip, adm.allowed, adm.failed)
            /\ req' = r
            /\ trace' = IF early.done
                        THEN [NoWork EXCEPT !.pc = "respond",
                                            !.response = early.resp]
                        ELSE [NoWork EXCEPT !.pc = "translate"]
    /\ UNCHANGED <<limiter, now>>
    /\ UNCHANGED <<app, redis_up, hash_seed, cache, conversations, resp, handled,
                   shadow, added>>
    /\ UNCHANGED engineVars

\* self.translator.translate(...) up to the backend call: a dictionary or
\* placeholder result returns at once, a backend call is waited for
StartTranslate ==
    /\ trace.pc = "translate"
    /\ IF CallsBackend(req)
       THEN /\ \E hangs \in BOOLEAN :
                  trace' = [trace EXCEPT !.pc = "backend", !.hangs = hangs]
            /\ UNCHANGED <<cache, conversations>>
            /\ UNCHANGED engineVars
       ELSE /\ \E outs \in Outcomes(engine), conf \in Confidences(engine),
                  guess \in Guesses(req.data.text) :
                  Translated(Late(req, outs, conf, guess, 1))
            /\ UNCHANGED <<engine, ai_models>>
    /\ UNCHANGED <<app, redis_up, hash_seed, req, resp, handled, shadow, added>>
    /\ UNCHANGED limiterVars

\* the backend call returns or raises
BackendReturns ==
    /\ trace.pc = "backend"
    /\ ~trace.hangs
    /\ \E outs \in Outcomes(engine), conf \in Confidences(engine),
          guess \in Guesses(req.data.text) :
          Translated(Late(req, outs, conf, guess, 1))
    /\ UNCHANGED <<engine, ai_models>>
    /\ UNCHANGED <<app, redis_up, hash_seed, req, resp, handled, shadow, added>>
    /\ UNCHANGED limiterVars

\* return jsonify(...)
Reply ==
    /\ trace.pc = "respond"
    /\ resp' = trace.response
    /\ trace' = NoWork
    /\ handled' = handled + 1
    /\ UNCHANGED <<app, redis_up, hash_seed, cache, conversations, req, shadow,
                   added>>
    /\ UNCHANGED engineVars
    /\ UNCHANGED limiterVars

InitBackend ==
    /\ app \in {"main", "codespace"}
    /\ redis_up = FALSE
    /\ hash_seed = 0
    /\ engine = EngineOf(app)
    /\ ai_models = ModelLangs(engine)
    /\ limiter = LimiterOf(app, redis_up)
    /\ call = NoCall
    /\ result = NoResult
    /\ backend_log = <<>>
    /\ now = 0
    /\ memory_store = <<>>
    /\ zset = <<>>
    /\ requests = <<>>
    /\ log = [c \in Clients |-> <<>>]
    /\ cache = <<>>
    /\ conversations = <<>>
    /\ req = <<>>
    /\ resp = <<>>
    /\ handled = 0
    /\ trace = NoWork
    /\ shadow = <<>>
    /\ added = <<>>

NextBackend ==
    \/ Tick
    \/ Receive
    \/ StartTranslate
    \/ BackendReturns
    \/ Reply

SpecBackend == InitBackend /\ [][NextBackend]_vars

\* the request thread runs whenever it can, and a backend that does not hang
\* finishes its call
FairBackend ==
    /\ SpecBackend
    /\ WF_vars(StartTranslate)
    /\ WF_vars(BackendReturns)
    /\ WF_vars(Reply)

(***************************************************************************)
(* Requests whose source_lang and style contain the cache key's separator. *)
(* Neither is validated, and both are written into the key as they are.    *)
(***************************************************************************)
KeyRequests ==
    [client_ip : Callers, is_json : {TRUE}, kind : {"object"},
     data : {[NoObject EXCEPT !.text = <<"a">>, !.target_lang = ES,
                              !.source_lang = source_lang, !.style = style,
                              !.use_context = JFALSE] :
                source_lang \in {<<"x">>, <<"x", ":", "e", "s">>},
                style \in {<<"g">>, <<"e", "s", ":", "g">>}}]

HandleKeyed == Handle(KeyRequests)

InitKeys == InitApi /\ hash_seed = 0

NextKeys == Wait \/ HandleKeyed

SpecKeys == InitKeys /\ [][NextKeys]_vars

(***************************************************************************)
(* Claims about the engines (SpecEngine)                                   *)
(***************************************************************************)
Called == result.method # "none"

CallHit == DictHit(Translations(engine), call.text, call.target_lang)

CallApplicable == BackendApplicable(ai_models, call.source_lang, call.target_lang)

\* C1: in main.py's and codespace_app.py's engine, a text whose trimmed,
\* lower-cased form is in the target language's phrase table is answered with
\* that entry, method dictionary and confidence 1.0, model loaded or not.
C1_DictionaryPriority ==
    (Called /\ engine \in {"main", "codespace"} /\ CallHit)
        => /\ result.translated_text =
                Translations(engine)[call.target_lang][Strip(Lower(call.text))]
           /\ MethodKind(result.method) = "dictionary"
           /\ result.confidence = 1000

\* C2: without a dictionary hit, with source auto/en and a loaded model whose
\* call succeeds, the result is the backend's output, method backend_model,
\* confidence 0.95; and the backend is called only when there is no dictionary
\* hit, the source is auto/en and a model is loaded for the target.
C2_BackendTier ==
    (Called /\ engine \in {"main", "codespace"})
        => /\ (/\ ~CallHit
               /\ CallApplicable
               /\ Len(backend_log) > 0
               /\ backend_log[Len(backend_log)].ok)
                  => /\ result.translated_text = backend_log[Len(backend_log)].text
                     /\ MethodKind(result.method) = "backend_model"
                     /\ result.confidence = 950
           /\ Len(backend_log) > 0 => (~CallHit /\ CallApplicable)

PlaceholderCase ==
    /\ Called
    /\ engine \in {"main", "codespace"}
    /\ ~CallHit
    /\ ~(call.target_lang \in ai_models /\ call.source_lang \in {AUTO, EN})

PlaceholderText ==
    /\ result.translated_text =
          <<"[">> \o Upper(call.target_lang) \o <<"]", " ">> \o call.text
    /\ MethodKind(result.method) = "placeholder"
    /\ Len(backend_log) = 0

\* C3 as stated: with no dictionary hit and the backend tier inapplicable the
\* result is "[" + upper(target_lang) + "] " + text, method placeholder,
\* confidence 0.0.
C3_PlaceholderConfidenceZero ==
    PlaceholderCase => (PlaceholderText /\ result.confidence = 0)

\* C3 as amended: with no dictionary hit and the backend tier inapplicable the
\* result is "[" + upper(target_lang) + "] " + text, method placeholder; the
\* confidence is 0.0 in main.py's engine and 0.1 in codespace_app.py's.
C3_PlaceholderTier ==
    PlaceholderCase
        => /\ PlaceholderText
           /\ result.confidence = (IF engine = "main" THEN 0 ELSE 100)

C3_Witness ==
    /\ PlaceholderCase
    /\ engine = "codespace"
    /\ call.target_lang = ES
    /\ ES \in ai_models
    /\ call.source_lang = FR
    /\ call.text = <<"a", " ", "A">>
    /\ result.translated_text = <<"[", "E", "S", "]", " ", "a", " ", "A">>

\* C4: when the backend call raises, the result is the placeholder
\* "[TARGET] text" with method placeholder, not method error.
C4_BackendExceptionFallsThrough ==
    (/\ Called
     /\ engine \in {"main", "codespace"}
     /\ Len(backend_log) > 0
     /\ \A i \in 1..Len(backend_log) : ~backend_log[i].ok)
        => /\ MethodKind(result.method) = "placeholder"
           /\ result.translated_text =
                <<"[">> \o Upper(call.target_lang) \o <<"]", " ">> \o call.text

\* C5: when a step of resolution raises, translate returns a result with
\* method error, confidence 0.0 and an error marker that is not the input text.
C5_ErrorResult ==
    (Called /\ engine \in {"main", "advanced", "codespaces"} /\ result.exception)
        => /\ result.method = "error"
           /\ result.confidence = 0
           /\ result.translated_text # call.text

(***************************************************************************)
(* Claims about the rate limiters (SpecLimiter, SpecStore)                 *)
(***************************************************************************)
\* C6: of a client's calls that fall less than Window after its first call,
\* the first Limit are allowed and the (Limit+1)-th is rejected, with the
\* in-memory store and with redis, also for calls in the same second.
C6_RateLimiterBound ==
    limiter \in {"memory", "redis"}
        => \A c \in Clients : \A i \in DOMAIN log[c] :
              log[c][i].time - log[c][1].time < Window
                  => /\ i <= Limit => log[c][i].allowed
                     /\ i = Limit + 1 => ~log[c][i].allowed

AcceptedIn(c, t) ==
    Cardinality({i \in DOMAIN log[c] :
                    /\ log[c][i].allowed
                    /\ t - Window < log[c][i].time
                    /\ log[c][i].time <= t})

\* C7: for every client and every time t, at most Limit of the client's
\* accepted requests have their timestamp in (t - Window, t].
C7_SlidingWindow ==
    \A c \in Clients : \A t \in 0..MaxTime : AcceptedIn(c, t) <= Limit

\* C8: a call made more than Window after a rejected call of the same client,
\* with only rejected calls in between, is allowed.
C8_Recovery ==
    limiter \in {"memory", "redis"}
        => \A c \in Clients : \A i \in DOMAIN log[c] : \A j \in DOMAIN log[c] :
              (/\ i < j
               /\ \A k \in i..(j - 1) : ~log[c][k].allowed
               /\ log[c][j].time - log[c][i].time > Window)
                  => log[c][j].allowed

\* C9: an is_allowed call during which the backing store raises returns true.
C9_FailOpen ==
    \A c \in Clients : \A i \in DOMAIN log[c] :
        log[c][i].failed => log[c][i].allowed

C9_Witness ==
    \E c \in Clients : \E i \in DOMAIN log[c] :
        /\ i > 1
        /\ log[c][i].failed
        /\ log[c][i].allowed
        /\ ~log[c][i - 1].allowed
        /\ log[c][i - 1].time = log[c][i].time

(***************************************************************************)
(* The response cache                                                      *)
(***************************************************************************)
\* what the cache holds under the last request's key
Stored == IF app = "app" THEN Eval(cache[RequestKey(req)].value)
          ELSE cache[RequestKey(req)]

Repeated ==
    /\ handled > 0
    /\ handled' = handled + 1
    /\ req' = req
    /\ resp.status = 200
    /\ resp'.status # 429

\* C11: of two consecutive admitted /translate requests with the same text,
\* source_lang, target_lang and style, the second is a cache hit with
\* cached=true and returns the first's translated_text and method, with or
\* without a key-value store and whatever the cache contains.
C11_CacheIdempotence ==
    [][Repeated =>
        /\ resp'.status = 200
        /\ trace'.lookup = "hit"
        /\ resp'.body.cached = TRUE
        /\ resp'.body.translated_text = resp.body.translated_text
        /\ "method" \in DOMAIN resp.body => resp'.body.method = resp.body.method]_vars

\* C12: with a deterministic backend, the translated_text the pipeline
\* returns for each resolved request equals the translated_text the pipeline
\* with the response cache disabled returns for it, contexts and sessions
\* included.
C12_CacheTransparency ==
    (handled > 0 /\ shadow.resolved) =>
        /\ resp.status = 200
        /\ resp.body.translated_text = shadow.translated_text

(***************************************************************************)
(* The conversation store (SpecConversation)                               *)
(***************************************************************************)
\* the history the manager has for a session now
History(s) == GetHistory(redis_up, conversations, s, now)

\* no exchange of the session has outlived the TTL the redis store gives the
\* history on every add_exchange (the in-process store never expires)
Fresh(s) ==
    redis_up =>
        /\ \A i \in 1..(Len(added[s]) - 1) :
                added[s][i + 1].timestamp < added[s][i].timestamp + TTL
        /\ added[s] # <<>> => now < added[s][Len(added[s])].timestamp + TTL

\* C13: every session's stored history has at most max_history exchanges and
\* is exactly the most recent min(n, max_history) exchanges added to the
\* session, in the order they were added (read for a session whose history
\* has not expired).
C13_HistoryBound ==
    \A s \in Sessions :
        /\ Len(History(s)) <= MaxHistory
        /\ Fresh(s) => History(s) = LastN(added[s], MaxHistory)

\* the line get_context makes of one exchange
Line(exchange) ==
    <<"Previous: ">> \o exchange.user_text \o <<" -> ">> \o exchange.translation

\* the lines of exchanges first..Len(history), oldest first, " | " between them
RECURSIVE Lines(_, _)
Lines(history, first) ==
    IF first = Len(history) THEN Line(history[first])
    ELSE Line(history[first]) \o <<" | ">> \o Lines(history, first + 1)

\* a get_context call whose read of the store succeeded has just returned
GotContext == handled > 0 /\ req.op = "get_context" /\ ~req.read_fails

\* C14: get_context returns "" for a session with no history, and otherwise
\* the last min(3, len) exchanges, oldest first, each as
\* "Previous: <user_text> -> <translation>", joined by " | "; no older
\* exchange appears in it.
C14_GetContext ==
    [][(handled' = handled + 1 /\ req'.op = "get_context" /\ ~req'.read_fails) =>
        LET history == History(req'.session_id)
            n == Len(history)
        IN  resp'.value =
                IF n = 0 THEN <<>>
                ELSE Lines(history, IF n > ContextLast THEN n - ContextLast + 1 ELSE 1)
      ]_vars

\* get_context on a session that holds more exchanges than it renders
C14_Witness ==
    /\ GotContext
    /\ Len(History(req.session_id)) > ContextLast
    /\ resp.value # <<>>

(***************************************************************************)
(* The conversation store inside /translate (SpecDegraded)                 *)
(***************************************************************************)
\* the last request fetched its context and recorded its exchange while the
\* store was failing
ContextStoreFailed ==
    /\ handled > 0
    /\ trace.store_down
    /\ trace.invoked = 1
    /\ WithContext(req)

\* C15: when the backing store fails on read or on write, get_context and
\* add_exchange do not raise, and the /translate request that called them
\* completes with its translation.
C15_ContextStoreNeverRaises ==
    ContextStoreFailed =>
        /\ resp.status = 200
        /\ resp.body.translated_text = result.translated_text

(***************************************************************************)
(* Validation (SpecBoundary)                                               *)
(***************************************************************************)
\* the last request was admitted by the rate limiter
Admitted == handled > 0 /\ resp.status # 429

C17_TargetSupported ==
    (handled > 0 /\ trace.invoked > 0) =>
        call.target_lang \in SupportedLanguages(app)

\* C18: no translator invocation is made for a client whose rate limit is
\* exceeded when the request arrives, on /translate and on /batch-translate.
C18_AdmissionGatesResolution ==
    [][(handled' = handled + 1 /\ trace'.invoked > 0) =>
            IsAllowed(req', FALSE).allowed]_vars

\* the last request was a batch that was resolved
BatchResolved ==
    /\ handled > 0
    /\ req.kind = "batch"
    /\ req.data.texts # NOTEXTS
    /\ Len(req.data.texts) <= BatchLimit(app)

\* the translator's result for element i of the last batch, given what the
\* backend did for it
Single(i) ==
    TranslateElement(engine, ai_models, req.data.texts[i],
                     DataGet(req.data, "source_lang", AUTO),
                     DataGet(req.data, "target_lang", DefaultTarget(app)),
                     trace.outs[i], trace.conf)

\* C19: /batch-translate on [t1..tn] answers 200 with exactly n results and
\* total_count = n; result i has original = ti and the translation,
\* confidence and method that translate gives for ti with the batch's
\* source_lang, target_lang and style.
C19_BatchOrder ==
    BatchResolved =>
        LET texts == req.data.texts
            results == resp.body.results
        IN  /\ resp.status = 200
            /\ Len(results) = Len(texts)
            /\ resp.body.total_count = Len(texts)
            /\ \A i \in DOMAIN texts :
                    /\ results[i].original = texts[i]
                    /\ results[i].translated = Single(i).translated_text
                    /\ results[i].confidence = Single(i).confidence
                    /\ "method" \in DOMAIN results[i] =>
                            results[i].method = Single(i).method

\* a batch of three different elements whose results differ
C19_Witness ==
    /\ BatchResolved
    /\ Len(req.data.texts) = 3
    /\ req.data.texts[1] # req.data.texts[3]
    /\ resp.status = 200
    /\ resp.body.results[1].translated # resp.body.results[3].translated

\* a sequence without its element j
Remove(s, j) == SubSeq(s, 1, j - 1) \o SubSeq(s, j + 1, Len(s))

\* resolving element i of the last batch failed: the element is malformed,
\* translate() caught an exception, or a backend call made for it raised
Failing(i) ==
    \/ req.data.texts[i] = NUMBER
    \/ Single(i).exception
    \/ \E k \in 1..Single(i).calls : ~trace.outs[i][k].ok

\* the results of the last batch had it been sent without element j
Without(j) ==
    BatchTranslate(app, engine, ai_models,
                   [req.data EXCEPT !.texts = Remove(@, j)],
                   Remove(trace.outs, j), trace.conf).resp.body.results

\* C20: when resolving one element of a batch fails, the batch still answers
\* 200 with one result per element, and the results of the other elements
\* are those of the batch without the failing element.
C20_BatchIndependence ==
    (BatchResolved /\ \E j \in DOMAIN req.data.texts : Failing(j)) =>
        /\ resp.status = 200
        /\ Len(resp.body.results) = Len(req.data.texts)
        /\ \A j \in DOMAIN req.data.texts :
                Failing(j) =>
                    \A i \in DOMAIN req.data.texts \ {j} :
                        resp.body.results[i] =
                            Without(j)[IF i < j THEN i ELSE i - 1]

\* a batch of three whose middle element is malformed and fails while the
\* elements around it are resolved
C20_Witness ==
    /\ BatchResolved
    /\ Len(req.data.texts) = 3
    /\ Failing(2)
    /\ Single(2).exception
    /\ ~Failing(1)
    /\ ~Failing(3)
    /\ resp.status = 200

(***************************************************************************)
(* Error handling of /translate (Spec)                                     *)
(***************************************************************************)
\* a request that validation has to refuse: the body is not an object, the
\* text is missing, not a string or too long, or the target is unsupported
Invalid(r) ==
    \/ r.kind # "object"
    \/ r.data.text \in {ABSENT, NUMBER}
    \/ Len(r.data.text) > MaxText(app)
    \/ (r.data.target_lang # ABSENT
            /\ r.data.target_lang \notin SupportedLanguages(app))

\* C21: every invalid /translate input that passes the rate limiter is
\* answered with status 400 and a message, never with 500.
C21_InvalidInputIs400 ==
    (Admitted /\ Invalid(req)) =>
        /\ resp.status = 400
        /\ resp.body.error # ""

\* C22: when the cache's backing store raises during a valid, admitted
\* /translate request, the request is treated as a cache miss and is answered
\* 200 with a freshly resolved translation.
C22_CacheDegradation ==
    (Admitted /\ trace.store_down /\ req.is_json /\ ~Invalid(req)) =>
        /\ resp.status = 200
        /\ trace.invoked = 1
        /\ resp.body.cached = FALSE

(***************************************************************************)
(* The order of the handler's steps (SpecPipeline)                         *)
(***************************************************************************)
\* the last request has been answered
Answered == handled > 0 /\ trace.pc = "idle"

\* the steps of the claim that a request performs: the cache steps need a
\* redis client, the context steps need use_context
Performed(r) ==
    <<"admission">>
    \o (IF redis_up THEN <<"lookup">> ELSE <<>>)
    \o (IF WithContext(r) THEN <<"context">> ELSE <<>>)
    \o <<"translate">>
    \o (IF WithContext(r) THEN <<"add_exchange">> ELSE <<>>)
    \o (IF redis_up THEN <<"store">> ELSE <<>>)
    \o <<"response">>

\* C23: an admitted, valid /translate request that misses the cache performs
\* its steps in the order admission check, cache lookup, context fetch,
\* translator call, add_exchange, cache store, response; a request rejected
\* by the rate limiter performs none of the later steps and changes neither
\* the cache nor any session history.
C23_PipelineOrder ==
    Answered =>
        /\ (resp.status = 200 /\ ~resp.body.cached) => trace.steps = Performed(req)
        /\ resp.status = 429 =>
                /\ trace.steps = <<"admission", "response">>
                /\ cache = trace.before.cache
                /\ conversations = trace.before.conversations

\* a miss that performed all seven steps has been answered, and so has a
\* rejected request
C23_Witness ==
    /\ Answered
    /\ resp.status = 200
    /\ ~resp.body.cached
    /\ Len(trace.steps) = 7
    /\ cache # trace.before.cache
    /\ conversations # trace.before.conversations

C23_WitnessRejected ==
    /\ Answered
    /\ resp.status = 429
    /\ cache # <<>>

(***************************************************************************)
(* Rejected calls (SpecLimiter)                                            *)
(***************************************************************************)
\* the timestamps the store holds for a client, as a set
WindowOf(mem, z, c, t) ==
    IF limiter = "memory"
    THEN {Get(mem, c, <<>>)[i] : i \in DOMAIN Get(mem, c, <<>>)}
    ELSE Live(z, c, t)

\* the step is a rejected is_allowed(c) of RateLimiter
Rejects(c) ==
    /\ limiter \in {"memory", "redis"}
    /\ Len(log'[c]) = Len(log[c]) + 1
    /\ ~log'[c][Len(log'[c])].allowed

\* C24: a rejected is_allowed call does not record the attempt: apart from
\* the purge of the expired timestamps, the client's window is the same
\* after the call as before it, in the in-memory and in the redis store.
C24_RejectedNotRecorded ==
    [][\A c \in Clients :
          Rejects(c) =>
              WindowOf(memory_store', zset', c, now)
                  = {t \in WindowOf(memory_store, zset, c, now) : t > now - Window}]_vars

(***************************************************************************)
(* Concurrent is_allowed calls (SpecThreads)                               *)
(***************************************************************************)
\* the accepted calls of the client that the limiter counts together with a
\* call at time t: those of the trailing window, or those of t's minute
AcceptedWith(t) ==
    Cardinality({i \in DOMAIN log[Client] :
                    /\ log[Client][i].allowed
                    /\ IF limiter = "memory"
                       THEN t - Window < log[Client][i].time /\ log[Client][i].time <= t
                       ELSE log[Client][i].time \div Window = t \div Window})

\* C25: when several threads call is_allowed for the same client
\* concurrently, with purge, check and record interleaved, the number of
\* accepted requests within one window never exceeds Limit.
C25_AtomicCheck ==
    \A t \in 0..MaxTime : AcceptedWith(t) <= Limit

(***************************************************************************)
(* Concurrent add_exchange calls (SpecAdds)                                *)
(***************************************************************************)
\* how many times the exchange e occurs in the sequence h
Occurrences(h, e) == Cardinality({i \in DOMAIN h : h[i] = e})

\* C26: when add_exchange calls for the same session run concurrently, each
\* a read, append, trim, write sequence, every exchange is in the stored
\* history once all calls have returned, as long as no more than
\* max_history exchanges have been added and nothing stored can have
\* expired yet.
C26_NoLostUpdate ==
    (/\ InFlight = 0
     /\ Len(added[Session]) <= MaxHistory
     /\ now < TTL)
        => \A i \in DOMAIN added[Session] :
              Occurrences(History(Session), added[Session][i])
                  = Occurrences(added[Session], added[Session][i])

(***************************************************************************)
(* Expiry of cached results (SpecExpiry)                                   *)
(***************************************************************************)
\* the last request was answered from the cache
Hit == handled > 0 /\ resp.status = 200 /\ resp.body.cached

\* when the last request arrived
Arrival == log[req.client_ip][Len(log[req.client_ip])].time

\* C27: a result stored in the response cache at time t is not served as a
\* cache hit to a request that arrives after t + TTL, in the redis cache
\* and in the in-process ones.
C27_CacheExpires ==
    Hit => Arrival <= shadow[RequestKey(req)] + TTL

(***************************************************************************)
(* The bounded cache of codespace_app.py (SpecExpiry)                      *)
(***************************************************************************)
\* the step answers a request with a newly computed result
Computes ==
    /\ app = "codespace"
    /\ handled' = handled + 1
    /\ resp'.status = 200
    /\ ~resp'.body.cached

\* the entries stored before every other entry
Oldest == {k \in DOMAIN cache : \A j \in DOMAIN cache \ {k} : shadow[k] < shadow[j]}

\* C28: the memory-bounded cache never holds more than its maximum entry
\* count, and when a new result is computed while the cache is full, the
\* oldest-inserted entry is evicted and the new result is stored, so that an
\* immediately repeated request hits the cache.
C28_BoundedCache ==
    [][Computes =>
          /\ Cardinality(DOMAIN cache') <= CacheMax
          /\ RequestKey(req') \in DOMAIN cache'
          /\ Cardinality(DOMAIN cache) = CacheMax
                => \A k \in Oldest : k \notin DOMAIN cache']_vars

(***************************************************************************)
(* The backend call is bounded (FairBackend)                               *)
(***************************************************************************)
\* C29: every admitted /translate request eventually receives a response,
\* also when the backend model call never returns.
C29_BoundedBackendCall ==
    (trace.pc \in {"translate", "backend"}) ~> (trace.pc = "idle")

(***************************************************************************)
(* What a dictionary result depends on (SpecEngine)                        *)
(***************************************************************************)
\* main.py's translate() has answered a call whose text has a dictionary
\* entry for the target language
DictionaryCall ==
    /\ engine = "main"
    /\ result.method # "none"
    /\ DictHit(MainTranslations, call.text, call.target_lang)

\* C30: for a text with a dictionary entry for target_lang, a translate call
\* that differs only in source_lang (style and context are never read), with
\* whatever the backend would do, gives the same translated_text, confidence
\* and method; and so does a call whose text differs only in case and in
\* surrounding whitespace.
C30_DictionaryInputs ==
    DictionaryCall =>
        \A source_lang \in SourceLangs, outs \in [1..2 -> BackendOutcomes],
           text \in {t \in Texts : DictKey(t) = DictKey(call.text)} :
            LET other == EnhancedTranslate(ai_models, text, source_lang,
                                           call.target_lang, outs)
            IN  /\ other.translated_text = result.translated_text
                /\ other.confidence = result.confidence
                /\ other.method = result.method

\* a dictionary entry was returned to a call with a source language other
\* than the default, a style other than the default and a model loaded for
\* the target language
C30_Witness ==
    /\ DictionaryCall
    /\ result.method = "dictionary"
    /\ call.source_lang = FR
    /\ call.style = FORMAL
    /\ call.target_lang \in ai_models

(***************************************************************************)
(* The batch size bound (SpecBatch)                                        *)
(***************************************************************************)
\* the last request was a batch with a texts array
Batch == handled > 0 /\ req.kind = "batch" /\ req.data.texts # NOTEXTS

\* the maximum batch size of the application
MaxBatchSize == IF app = "codespace" THEN SmallBatch ELSE MaxBatch

\* C31: a /batch-translate request with more texts than the maximum batch
\* size is answered 400 and the translator is invoked for none of its texts;
\* a batch of exactly the maximum size is accepted and every text of it is
\* resolved.
C31_BatchSizeBound ==
    Batch =>
        /\ Len(req.data.texts) > MaxBatchSize
                => resp.status = 400 /\ trace.invoked = 0
        /\ Len(req.data.texts) = MaxBatchSize
                => /\ resp.status = 200
                   /\ trace.invoked = MaxBatchSize
                   /\ resp.body.total_count = MaxBatchSize

\* a batch of exactly the maximum size has been accepted
C31_Witness ==
    /\ Batch
    /\ Len(req.data.texts) = MaxBatchSize
    /\ resp.status = 200

\* a batch beyond the maximum size has been rejected
C31_WitnessRejected ==
    /\ Batch
    /\ Len(req.data.texts) > MaxBatchSize
    /\ resp.status = 400

(***************************************************************************)
(* A hit answers the request that was made (SpecKeys)                      *)
(***************************************************************************)
\* C32: whenever /translate returns a response with cached=true, the
\* response's original_text, target_language and style are the text,
\* target_lang and style of the current request, also for source_lang and
\* style strings that contain ':'.
C32_HitIsForRequest ==
    Hit =>
        /\ resp.body.original_text = Params(req).text
        /\ resp.body.target_language = Params(req).target_lang
        /\ resp.body.style = Params(req).style

(***************************************************************************)
(* Every phrase-table entry can be looked up (SpecEngine)                  *)
(***************************************************************************)
\* main.py's translate() has answered a call whose text is, as it is
\* written, a key of the target language's phrase table
KeyCall ==
    /\ engine = "main"
    /\ result.method # "none"
    /\ call.target_lang \in DOMAIN MainTranslations
    /\ call.text \in DOMAIN MainTranslations[call.target_lang]

\* C33: for every target language and every key k of that language's phrase
\* table, translate(k, target_lang) returns the table's value for k with
\* method=dictionary.
C33_EntriesReachable ==
    KeyCall =>
        /\ result.translated_text = MainTranslations[call.target_lang][call.text]
        /\ result.method = "dictionary"

(***************************************************************************)
(* A failed read inside add_exchange (SpecConversation)                    *)
(***************************************************************************)
\* the step is an add_exchange whose read of the store fails and whose write
\* succeeds
AddsBlind ==
    /\ handled' = handled + 1
    /\ req'.op = "add_exchange"
    /\ req'.read_fails
    /\ ~req'.write_fails

\* C34: if the store read inside add_exchange fails, and is swallowed as an
\* empty history, while the following write succeeds, the exchanges the
\* session had stored before the call, but for those the trim to
\* max_history drops, are still stored after it.
C34_FailedReadKeepsHistory ==
    [][AddsBlind =>
          LET before == GetHistory(redis_up, conversations, req'.session_id, now)
              after == GetHistory(redis_up, conversations', req'.session_id, now)
          IN  \A i \in DOMAIN before :
                  i > Len(before) + 1 - MaxHistory
                      => \E j \in DOMAIN after : after[j] = before[i]]_vars

(***************************************************************************)
(* Backend failures and the cache (Spec)                                   *)
(***************************************************************************)
\* the body is the result of a translate() whose backend call failed: the
\* error result, or the placeholder of a request the backend was asked for
FailureBody(body, r) ==
    /\ "method" \in DOMAIN body
    /\ \/ body.method = "error"
       \/ /\ body.method = "fallback"
          /\ BackendApplicable(ai_models, Params(r).source_lang,
                               Params(r).target_lang)

\* C35: a transient backend failure affects only the request it occurred
\* in: a later identical request is not answered with the replayed failure
\* result.  The in-process caches keep an entry for the life of the
\* process, so a failure result served from the cache once is served for
\* ever, whatever the backend does by then.
C35_FailureNotReplayed ==
    (Hit /\ app \in {"main", "codespace"}) => ~FailureBody(resp.body, req)

(***************************************************************************)
(* Conversation state of hits and of requests without context              *)
(* (SpecPipeline)                                                          *)
(***************************************************************************)
\* the last request was answered from the cache
AnsweredHit == Answered /\ resp.status = 200 /\ resp.body.cached

\* the last request was answered with a new translation
AnsweredMiss == Answered /\ resp.status = 200 /\ ~resp.body.cached

\* C36: when /translate with use_context=true is answered from the cache,
\* get_context and add_exchange are not called and the session's history is
\* the same after the request as before it.
C36_HitLeavesHistory ==
    (AnsweredHit /\ WithContext(req)) =>
        /\ trace.steps = <<"admission", "lookup", "response">>
        /\ conversations = trace.before.conversations

\* a request with use_context=true was answered from the cache while its
\* session had a history
C36_Witness ==
    /\ AnsweredHit
    /\ WithContext(req)
    /\ GetHistory(redis_up, conversations, SessionId(req), now) # <<>>

\* C37: with use_context=false the translator is called with an empty
\* context and the request neither reads nor modifies a session history.
C37_NoContextIsolated ==
    (AnsweredMiss /\ ~Params(req).use_context) =>
        /\ call.context = <<>>
        /\ \A i \in DOMAIN trace.steps :
                trace.steps[i] \notin {"context", "add_exchange"}
        /\ conversations = trace.before.conversations

\* a request with use_context=false was translated while its session had a
\* history
C37_Witness ==
    /\ AnsweredMiss
    /\ ~Params(req).use_context
    /\ GetHistory(redis_up, conversations, SessionId(req), now) # <<>>

\* ---------------------------------------------------------------------
\* Admission before validation (Spec)
\* ---------------------------------------------------------------------

\* the slots client c has used in the current minute_key of the store reqs
Consumed(reqs, c) == Get(Get(reqs, c, <<>>), now \div Window, 0)

\* the requests of client c that is_allowed admitted in the current minute_key
AdmittedNow(c) ==
    Cardinality({i \in DOMAIN log[c] :
                    /\ log[c][i].allowed
                    /\ log[c][i].time \div Window = now \div Window})

\* C38: with SimpleRateLimiter, a /translate request is answered 429 exactly
\* when the client has already used Limit slots of the current window, and
\* every request that is admitted uses one more slot whatever its response is
\* (400 from validation, a cache hit, a translation); the slots used are the
\* requests admitted in the window, so that the request following Limit
\* invalid ones is rate-limited
C38_AdmissionConsumed ==
    /\ [](limiter = "simple" =>
            \A c \in Callers : Consumed(requests, c) = AdmittedNow(c))
    /\ [][(handled' = handled + 1 /\ limiter = "simple") =>
            LET c == req'.client_ip
            IN  /\ resp'.status = 429 <=> Consumed(requests, c) >= Limit
                /\ Consumed(requests', c) =
                      Consumed(requests, c) + (IF resp'.status = 429 THEN 0 ELSE 1)
          ]_vars

\* main.py answers 429 after Limit requests none of which reached the cache
\* or the translator
C38_Witness ==
    /\ app = "main" /\ handled = Limit + 1
    /\ resp.status = 429
    /\ cache = <<>> /\ call = NoCall
    /\ Consumed(requests, req.client_ip) = Limit

\* ---------------------------------------------------------------------
\* Session isolation (SpecConversation)
\* ---------------------------------------------------------------------

\* the sessions other than the one of the last call
Others == Sessions \ {req.session_id}

\* C39: an add_exchange on one session leaves the history and the get_context
\* result of every other session as they were, also when its read or its
\* write fails, and a get_context leaves the whole conversation store as it
\* was
C39_SessionIsolation ==
    [][handled' = handled + 1 =>
        /\ req'.op = "add_exchange" =>
              \A b \in Sessions \ {req'.session_id} :
                  /\ GetHistory(redis_up, conversations', b, now)
                        = GetHistory(redis_up, conversations, b, now)
                  /\ GetContext(redis_up, conversations', b, now)
                        = GetContext(redis_up, conversations, b, now)
        /\ req'.op = "get_context" => conversations' = conversations
      ]_vars

\* an add_exchange was stored for a session while another session has a
\* history of its own
C39_Witness ==
    /\ handled > 0 /\ req.op = "add_exchange" /\ ~req.write_fails
    /\ GetHistory(redis_up, conversations, req.session_id, now) # <<>>
    /\ \E b \in Others :
          /\ GetHistory(redis_up, conversations, b, now) # <<>>
          /\ GetHistory(redis_up, conversations, b, now)
                # GetHistory(redis_up, conversations, req.session_id, now)

====
